---- MODULE Spec2Model ----
(***************************************************************************)
(* A model of the daily metrics pipeline of the life-logging backend:      *)
(* the scheduled aggregators of data-capture-engine.ts and the insight     *)
(* engines (cognitive mirror, emotion forecast, behavioural recovery, life *)
(* events) that consume their records.                                     *)
(*                                                                         *)
(* Conventions.                                                            *)
(*  - Time is counted in hours since 1970-01-01T00:00Z; a timestamp of the *)
(*    code (milliseconds) is the hour count times MsPerHour.               *)
(*  - A date key "YYYY-MM-DD" is modelled by the number of the UTC day;    *)
(*    ISO date strings compare as their day numbers do.                    *)
(*  - The functions run with the UTC time zone, so Date#setDate(d-1)       *)
(*    moves a Date back by exactly 24 hours.                               *)
(*  - A number that need not be an integer is kept as an exact fraction.   *)
(*  - A raw event collection is a bag: a record with a field copies stands *)
(*    for that many documents that differ in their id only.                *)
(***************************************************************************)
EXTENDS Integers, Sequences, FiniteSets, TLC

\* ------------------------------------------------------------------ bounds

NumUsers == 2
MaxRawBatches == 2
MaxFailures == 1
MaxHour == 78
FirstDay == 35
ForecastDays == 3
RecoveryDays == 1
LifeEventDays == 2
MaxScoreBatches == 2
ScoreDays == 2
RerunForecastDays == 2
MaxVoiceEvents == 3
MaxEarlier == 4

\* Hours of the day at which the capture pipeline delivers raw events.
LogHours == {1, 2, 12}

\* ------------------------------------------------------- program constants

HoursPerDay == 24
MsPerHour == 3600000
MsPerMinute == 60000
SecondsPerMinute == 60
DefaultSleepHours == 8
FrictionGapMs == 5000

HealthHour == 2
DeviceHour == 3
ShadowHour == 4
ObscuraHour == 5
MirrorHour == 6
ForecastHour == 7
LifeEventHour == 8
LifeEventWeekday == 0
AuraMinutes == 5
AutoAuraMinutes == 10
ParticleMinutes == 1
CleanupMinutes == 15
ClockStep == 5
EpochWeekday == 4

\* ------------------------------------------------------------------ helpers

Min(a, b) == IF a < b THEN a ELSE b
Max(a, b) == IF a > b THEN a ELSE b
Abs(a) == IF a < 0 THEN -a ELSE a

\* Math.round(p / q) for q > 0: the nearest integer, halves rounded up.
Round(p, q) == (2 * p + q) \div (2 * q)

\* A JavaScript number that is not an integer is kept as the exact fraction
\* n / d in lowest terms, d > 0.
RECURSIVE GCD(_, _)
GCD(a, b) == IF b = 0 THEN a ELSE GCD(b, a % b)

Frac(n, d) == LET g == GCD(Abs(n), d) IN [n |-> n \div g, d |-> d \div g]
Whole(k) == [n |-> k, d |-> 1]
FAdd(a, b) == Frac(a.n * b.d + b.n * a.d, a.d * b.d)
FSub(a, b) == Frac(a.n * b.d - b.n * a.d, a.d * b.d)
FMul(a, b) == Frac(a.n * b.n, a.d * b.d)
FDivInt(a, k) == Frac(a.n, a.d * k)
FLt(a, b) == a.n * b.d < b.n * a.d
FLe(a, b) == a.n * b.d <= b.n * a.d
FMin(a, b) == IF FLt(a, b) THEN a ELSE b
FMax(a, b) == IF FLt(a, b) THEN b ELSE a
FAbs(a) == [n |-> Abs(a.n), d |-> a.d]
FRound(a) == Round(a.n, a.d)

\* Date#toISOString().split('T')[0] of the instant t.
DateKey(t) == t \div HoursPerDay

\* Date#getDay() of the day d (0 = Sunday).
GetDay(d) == (d + EpochWeekday) % 7

\* The documents of S in ascending order of the key k (a function on S).
RECURSIVE SortByKey(_, _)
SortByKey(S, k) ==
  IF S = {} THEN <<>>
  ELSE LET m == CHOOSE x \in S : \A y \in S : k[x] <= k[y]
       IN <<m>> \o SortByKey(S \ {m}, k)

\* The sum of the values of the sequence f: every value times the number of
\* places that hold it.
RECURSIVE SumValues(_, _)
SumValues(f, vs) ==
  IF vs = {} THEN 0
  ELSE LET v == CHOOSE x \in vs : TRUE
       IN v * Cardinality({i \in DOMAIN f : f[i] = v}) + SumValues(f, vs \ {v})

Sum(f) == SumValues(f, {f[i] : i \in DOMAIN f})

\* copies documents equal to d.
Repeat(d, copies) == [i \in 1 .. copies |-> d]

\* A bag given as a sequence of batches, as the sequence of its documents.
RECURSIVE Expand(_)
Expand(batches) ==
  IF batches = <<>> THEN <<>>
  ELSE Repeat(Head(batches), Head(batches).copies) \o Expand(Tail(batches))

Users == 1 .. NumUsers

\* ------------------------------------------------------------------- state

VARIABLES
  now,              \* the clock, in hours
  ran,              \* the scheduled jobs already invoked at this hour
  scheduled,        \* the functions of the deployment
  users,            \* collection users (document ids)
  telemetryEvents,  \* collection telemetryEvents (bag)
  voiceEvents,      \* collection voiceEvents (bag)
  cameraCaptures,   \* collection cameraCaptures (bag)
  rhythmMap,
  healthEcho,
  deviceSignals,
  shadowCognition,
  obscuraPatterns,
  cognitiveMirror,
  emotionForecast,
  recoveryEngine,
  lifeEvents,
  nextId,           \* the next document id uuidv4() returns
  pending,          \* cognitiveMirror documents whose creation trigger is due
  lastRun,          \* what the last invocation of a scheduled job logged
  failures,         \* store failures so far
  redelivered,      \* invocations the scheduler has repeated so far
  dreamEvents,      \* collection dreamEvents
  partnerAuth,      \* collection partnerAuth
  packages,         \* documents dataMarketplace/packages/{packageId}
  callableDocs,     \* the documents the callable functions wrote
  reply,            \* the last call of a callable function and its outcome
  rhythmScores,     \* collection rhythmScores
  scored,           \* rhythmMap documents whose creation trigger has run
  healthRun,        \* the invocation of the health aggregator in progress
  darRequests,      \* collection darRequests
  queue,            \* documents messages/queue/{messageId}
  prefs,            \* notificationPreferences of the users documents
  fcmTokens,        \* documents users/{uid}/fcmTokens
  inbox,            \* documents users/{uid}/notifications and orbEvents
  delivery,         \* what processNotificationQueue did, message by message
  voiceProfiles,    \* collection voiceProfiles
  profileRuns,      \* the invocations of updateVoiceProfile
  passiveInsights,  \* collection passiveInsights
  noticed,          \* what onCognitiveStateChange did, record by record
  activeOverlays,   \* collection activeOverlays
  minute,           \* minutes since the last quarter of an hour
  restyled          \* cognitiveMirror documents onMoodChange has run for

vars == <<now, ran, scheduled, users, telemetryEvents, voiceEvents,
          cameraCaptures, rhythmMap, healthEcho, deviceSignals,
          shadowCognition, obscuraPatterns, cognitiveMirror,
          emotionForecast, recoveryEngine, lifeEvents, nextId, pending,
          lastRun, failures, redelivered, dreamEvents, partnerAuth,
          packages, callableDocs, reply, rhythmScores, scored, healthRun,
          darRequests, queue, prefs, fcmTokens, inbox, delivery,
          voiceProfiles, profileRuns, passiveInsights, noticed,
          activeOverlays, minute, restyled>>

raw == <<telemetryEvents, voiceEvents, cameraCaptures>>
callable == <<dreamEvents, partnerAuth, packages, callableDocs, reply, darRequests>>
\* The state of the handlers outside the daily cycle.
notify == <<queue, prefs, fcmTokens, inbox, delivery>>
profiles == <<voiceProfiles, profileRuns>>
shifts == <<passiveInsights, noticed>>
others == <<notify, profiles, shifts>>
side == <<healthRun, others>>
overlays == <<activeOverlays, minute, restyled>>
aux == <<redelivered, callable, rhythmScores, scored, side, overlays>>

NoReply == [fn |-> "none", uid |-> 0, data |-> [null |-> TRUE],
            code |-> "none", reads |-> 0, wrote |-> 0]

NoCalls ==
  /\ dreamEvents = {}
  /\ partnerAuth = {}
  /\ packages = {}
  /\ callableDocs = {}
  /\ reply = NoReply
  /\ darRequests = {}
  /\ activeOverlays = {}
  /\ minute = 0
  /\ restyled = {}

\* No invocation of the health aggregator is in progress.
NoHealthRun == [at |-> -1, todo |-> <<>>, echo |-> {}, done |-> <<>>]

NoNotify ==
  /\ queue = {}
  /\ prefs = <<>>
  /\ fcmTokens = {}
  /\ inbox = {}
  /\ delivery = {}

NoVoice ==
  /\ voiceProfiles = {}
  /\ profileRuns = {}

NoInsight ==
  /\ passiveInsights = {}
  /\ noticed = {}

NoSide ==
  /\ healthRun = NoHealthRun
  /\ NoNotify
  /\ NoVoice
  /\ NoInsight

derived == <<rhythmMap, healthEcho, deviceSignals, shadowCognition,
             obscuraPatterns, cognitiveMirror, emotionForecast, recoveryEngine, lifeEvents>>

\* A store call that throws: the call op made while user is being processed
\* (user 0: the read of the users collection).
NoFail == [user |-> -1, op |-> "none"]
FailAt(u, op) == [user |-> u, op |-> op]
Faults(ops) == {NoFail} \cup {FailAt(0, "users")}
                 \cup {FailAt(u, op) : u \in Users, op \in ops}

NoRun == [job |-> "none", at |-> -1, done |-> <<>>, error |-> FALSE, failedUser |-> -1]

\* db.collection("users").get(): the documents in the order of their ids.
UsersSnapshot == SortByKey(users, [u \in users |-> u])

\* ------------------------------------------------------ external producers

TelemetryTypes == {"motion_event", "notification_received", "screen_on", "app_opened"}

RawCount == Cardinality(telemetryEvents) + Cardinality(voiceEvents)
              + Cardinality(cameraCaptures)

\* The capture pipeline writes copies telemetry documents of one kind.
LogTelemetry(u, type, duration, copies) ==
  /\ now % HoursPerDay \in LogHours
  /\ \A e \in telemetryEvents : ~(e.userId = u /\ e.timestamp = now)
  /\ telemetryEvents' = telemetryEvents \cup
       {[userId |-> u, eventType |-> type, timestamp |-> now,
         eventDuration |-> duration, copies |-> copies]}
  /\ UNCHANGED <<now, ran, scheduled, users, voiceEvents, cameraCaptures, derived, nextId,
                 pending, lastRun, failures, aux>>

\* The capture pipeline writes copies voice events of one sentiment score
\* (in hundredths).
LogVoice(u, sentiment, copies) ==
  /\ now % HoursPerDay \in LogHours
  /\ \A e \in voiceEvents : ~(e.uid = u /\ e.createdAt = now)
  /\ voiceEvents' = voiceEvents \cup
       {[uid |-> u, createdAt |-> now, sentimentScore |-> sentiment,
         copies |-> copies]}
  /\ UNCHANGED <<now, ran, scheduled, users, telemetryEvents, cameraCaptures, derived, nextId,
                 pending, lastRun, failures, aux>>

\* The capture pipeline writes copies camera captures of one kind: the camera
\* angle ("" when the field is missing) and the number of object tags (-1
\* when the field is missing).
LogCapture(u, cameraAngle, objectTags, copies) ==
  /\ now % HoursPerDay \in LogHours
  /\ \A c \in cameraCaptures : ~(c.uid = u /\ c.createdAt = now)
  /\ cameraCaptures' = cameraCaptures \cup
       {[uid |-> u, createdAt |-> now, cameraAngle |-> cameraAngle,
         objectTags |-> objectTags, copies |-> copies]}
  /\ UNCHANGED <<now, ran, scheduled, users, telemetryEvents, voiceEvents,
                 derived, nextId, pending, lastRun, failures, aux>>

\* ------------------------------------------------------------- the scheduler

Schedule ==
  [aggregateDailyHealthMetrics |-> HealthHour,
   aggregateDeviceSignals |-> DeviceHour,
   aggregateShadowCognition |-> ShadowHour,
   aggregateObscuraPatterns |-> ObscuraHour,
   generateCognitiveMirror |-> MirrorHour,
   generateEmotionForecast |-> ForecastHour,
   detectLifeEvents |-> LifeEventHour]

Due(job) ==
  /\ job \in scheduled
  /\ now % HoursPerDay = Schedule[job]
  /\ job = "detectLifeEvents" => GetDay(DateKey(now)) = LifeEventWeekday
  /\ job \notin ran

ClockHours == LogHours \cup {Schedule[j] : j \in DOMAIN Schedule}

NextClock(t) == CHOOSE h \in (t + 1) .. (t + HoursPerDay) :
                  /\ h % HoursPerDay \in ClockHours
                  /\ \A g \in (t + 1) .. (h - 1) : g % HoursPerDay \notin ClockHours

\* Time passes to the next hour at which something can happen; the scheduler
\* has invoked every job due at this hour. The clock is followed up to limit.
Tick(limit) ==
  /\ now < limit
  /\ \A job \in DOMAIN Schedule : ~Due(job)
  /\ now' = NextClock(now)
  /\ ran' = {}
  /\ UNCHANGED <<scheduled, users, raw, derived, nextId, pending, lastRun, failures, aux>>

\* The scheduler delivers an invocation at least once: a job that has run at
\* this hour is invoked again.
Redeliver(job, limit) ==
  /\ job \in scheduled
  /\ job \in ran
  /\ redelivered < limit
  /\ ran' = ran \ {job}
  /\ redelivered' = redelivered + 1
  /\ UNCHANGED <<now, scheduled, users, raw, derived, nextId, pending, lastRun,
                 failures, callable, rhythmScores, scored, side, overlays>>

\* --------------------------------------------------- telemetry window query

\* telemetryEvents where userId == u, timestamp >= from, timestamp < to:
\* the documents in ascending order of timestamp.
TelemetrySnapshot(u, from, to) ==
  LET hits == {e \in telemetryEvents :
                 e.userId = u /\ e.timestamp >= from /\ e.timestamp < to}
  IN Expand(SortByKey(hits, [e \in hits |-> e.timestamp]))

\* The loops of the handlers over the documents of a snapshot: a sum or a
\* count over all documents.
SumDuration(docs, type) ==
  Sum([i \in DOMAIN docs |->
         IF docs[i].eventType = type THEN docs[i].eventDuration ELSE 0])

CountType(docs, type) ==
  Cardinality({i \in DOMAIN docs : docs[i].eventType = type})

\* ------------------------------------------- aggregateDailyHealthMetrics

\* Math.min(100, totalMovement / 60)
MovementScore(totalMovement) ==
  FMin(Whole(100), Frac(totalMovement, SecondsPerMinute))

\* Five hours of sleep found in the telemetry.
SleepHours_Five == DefaultSleepHours - 3

\* sleepStart and sleepEnd are never assigned: the default applies.
SleepHours == DefaultSleepHours

\* RhythmState without the test on the number of motion events.
RhythmState_AnyEventCount(sleepHours, movementScore, motionEvents) ==
  IF sleepHours < 6 \/ FLt(movementScore, Whole(20)) THEN "Off-Rhythm"
  ELSE IF FLt(Whole(80), movementScore) THEN "Overstimulated"
  ELSE "Stable"

RhythmState(sleepHours, movementScore, motionEvents) ==
  IF sleepHours < 6 \/ FLt(movementScore, Whole(20)) THEN "Off-Rhythm"
  ELSE IF FLt(Whole(80), movementScore) /\ motionEvents > 100 THEN "Overstimulated"
  ELSE "Stable"

HealthEchoStress(rhythmState) ==
  IF rhythmState = "Overstimulated" THEN 80
  ELSE IF rhythmState = "Off-Rhythm" THEN 60 ELSE 30

\* The accumulator of a job's loop over the users: the store collections it
\* writes, the id counter, the users it logged as done, and the user at which
\* a store call threw (0: before the loop, -1: none).
Thrown(acc, u) == [acc EXCEPT !.failedUser = u]

HealthUser(acc, u, f, at) ==
  LET yesterday == at - HoursPerDay
      dateKey == DateKey(yesterday)
      docs == TelemetrySnapshot(u, yesterday - HoursPerDay, yesterday)
      totalMovement == SumDuration(docs, "motion_event")
      motionEvents == CountType(docs, "motion_event")
      movementScore == MovementScore(totalMovement)
      sleepHours == SleepHours
      rhythmState == RhythmState(sleepHours, movementScore, motionEvents)
      rhythm == [id |-> acc.id, userId |-> u, date |-> dateKey,
                 sleepHours |-> sleepHours, movementScore |-> movementScore,
                 rhythmState |-> rhythmState, createdAt |-> at]
      echo == [id |-> acc.id + 1, userId |-> u, date |-> dateKey,
               movementScore |-> movementScore,
               wellnessIndex |->
                 FDivInt(FAdd(movementScore, Frac(sleepHours * 25, 2)), 2),
               createdAt |-> at, stepsCount |-> motionEvents * 100,
               activeMinutes |-> Frac(totalMovement, SecondsPerMinute),
               stressIndex |-> HealthEchoStress(rhythmState)]
  IN IF f = FailAt(u, "read") THEN Thrown(acc, u)
     ELSE IF docs = <<>> THEN acc
     ELSE IF f = FailAt(u, "set1") THEN Thrown(acc, u)
     ELSE IF f = FailAt(u, "set2")
       THEN Thrown([acc EXCEPT !.a = @ \cup {rhythm}, !.id = @ + 1], u)
     ELSE [acc EXCEPT !.a = @ \cup {rhythm}, !.b = @ \cup {echo},
                      !.id = @ + 2, !.done = Append(@, u)]

RECURSIVE HealthLoop(_, _, _, _)
HealthLoop(acc, docs, f, at) ==
  IF docs = <<>> \/ acc.failedUser # -1 THEN acc
  ELSE HealthLoop(HealthUser(acc, Head(docs), f, at), Tail(docs), f, at)

\* A job that replaces what its collections hold.
StartAcc_Replacing(a, b, f) ==
  [a |-> {}, b |-> {}, id |-> nextId, done |-> <<>>,
   failedUser |-> IF f = FailAt(0, "users") THEN 0 ELSE -1]

StartAcc(a, b, f) ==
  [a |-> a, b |-> b, id |-> nextId, done |-> <<>>,
   failedUser |-> IF f = FailAt(0, "users") THEN 0 ELSE -1]

\* What the invocation logged: logger.info per user done, logger.error once
\* from the catch block around the loop.
RunLog(job, acc) ==
  [job |-> job, at |-> now, done |-> acc.done, error |-> acc.failedUser # -1,
   failedUser |-> acc.failedUser]

\* The bookkeeping every scheduled job shares: it is due, a fault that is
\* injected is one the run reaches, and the run is logged.
\* JobFrame with document ids that do not advance from run to run.
JobFrame_SameIds(job, f, acc) ==
  /\ Due(job)
  /\ f # NoFail => failures < MaxFailures /\ acc.failedUser # -1
  /\ failures' = IF f = NoFail THEN failures ELSE failures + 1
  /\ ran' = ran \cup {job}
  /\ nextId' = nextId
  /\ lastRun' = RunLog(job, acc)
  /\ UNCHANGED <<now, scheduled, users, raw, aux>>

JobFrame(job, f, acc) ==
  /\ Due(job)
  /\ f # NoFail => failures < MaxFailures /\ acc.failedUser # -1
  /\ failures' = IF f = NoFail THEN failures ELSE failures + 1
  /\ ran' = ran \cup {job}
  /\ nextId' = acc.id
  /\ lastRun' = RunLog(job, acc)
  /\ UNCHANGED <<now, scheduled, users, raw, aux>>

AggregateDailyHealthMetrics(f) ==
  LET acc == HealthLoop(StartAcc(rhythmMap, healthEcho, f), UsersSnapshot, f, now)
  IN /\ JobFrame("aggregateDailyHealthMetrics", f, acc)
     /\ rhythmMap' = acc.a
     /\ healthEcho' = acc.b
     /\ UNCHANGED <<deviceSignals, shadowCognition, obscuraPatterns, cognitiveMirror,
                    emotionForecast, recoveryEngine, lifeEvents, pending>>

\* ------------------------------------------------ aggregateDeviceSignals

DeviceUser(acc, u, f, at) ==
  LET yesterday == at - HoursPerDay
      docs == TelemetrySnapshot(u, yesterday - HoursPerDay, yesterday)
      signal == [id |-> acc.id, userId |-> u,
                 notificationCount |-> CountType(docs, "notification_received"),
                 timestamp |-> at,
                 screenTimeMinutes |->
                   Frac(SumDuration(docs, "screen_on"), MsPerMinute),
                 appSwitches |-> CountType(docs, "app_opened")]
  IN IF f = FailAt(u, "read") THEN Thrown(acc, u)
     ELSE IF docs = <<>> THEN acc
     ELSE IF f = FailAt(u, "set1") THEN Thrown(acc, u)
     ELSE [acc EXCEPT !.a = @ \cup {signal}, !.id = @ + 1,
                      !.done = Append(@, u)]

RECURSIVE DeviceLoop(_, _, _, _)
DeviceLoop(acc, docs, f, at) ==
  IF docs = <<>> \/ acc.failedUser # -1 THEN acc
  ELSE DeviceLoop(DeviceUser(acc, Head(docs), f, at), Tail(docs), f, at)

AggregateDeviceSignals(f) ==
  LET acc == DeviceLoop(StartAcc(deviceSignals, {}, f), UsersSnapshot, f, now)
  IN /\ JobFrame("aggregateDeviceSignals", f, acc)
     /\ deviceSignals' = acc.a
     /\ UNCHANGED <<rhythmMap, healthEcho, shadowCognition, obscuraPatterns, cognitiveMirror,
                    emotionForecast, recoveryEngine, lifeEvents, pending>>

\* ---------------------------------------------- aggregateShadowCognition

\* The pairs of consecutive documents that are both app_opened and less than
\* five seconds apart.
FrictionTaps(events) ==
  Cardinality({i \in 2 .. Len(events) :
                 /\ events[i].eventType = "app_opened"
                 /\ events[i - 1].eventType = "app_opened"
                 /\ (events[i].timestamp - events[i - 1].timestamp) * MsPerHour
                      < FrictionGapMs})

\* new Date(timestamp).getHours()
GetHours(t) == t % HoursPerDay

BedtimeScrollMs(events) ==
  Sum([i \in DOMAIN events |->
         IF /\ (GetHours(events[i].timestamp) >= 22
                 \/ GetHours(events[i].timestamp) <= 6)
            /\ events[i].eventType = "screen_on"
         THEN events[i].eventDuration ELSE 0])

ShadowUser(acc, u, f, at) ==
  LET yesterday == at - HoursPerDay
      events == TelemetrySnapshot(u, yesterday - HoursPerDay, yesterday)
      frictionTaps == FrictionTaps(events)
      shadow == [id |-> acc.id, userId |-> u, date |-> DateKey(yesterday),
                 frictionTaps |-> frictionTaps, anxietyMotion |-> 0,
                 bedtimeScroll |-> Frac(BedtimeScrollMs(events), MsPerMinute),
                 timestamp |-> at,
                 compulsiveOpenCount |-> (frictionTaps * 15) \div 10,
                 hesitationTaps |-> (frictionTaps * 3) \div 10,
                 avoidanceBehaviors |-> (frictionTaps * 8) \div 10]
  IN IF f = FailAt(u, "read") THEN Thrown(acc, u)
     ELSE IF events = <<>> THEN acc
     ELSE IF f = FailAt(u, "set1") THEN Thrown(acc, u)
     ELSE [acc EXCEPT !.a = @ \cup {shadow}, !.id = @ + 1,
                      !.done = Append(@, u)]

RECURSIVE ShadowLoop(_, _, _, _)
ShadowLoop(acc, docs, f, at) ==
  IF docs = <<>> \/ acc.failedUser # -1 THEN acc
  ELSE ShadowLoop(ShadowUser(acc, Head(docs), f, at), Tail(docs), f, at)

AggregateShadowCognition(f) ==
  LET acc == ShadowLoop(StartAcc(shadowCognition, {}, f), UsersSnapshot, f, now)
  IN /\ JobFrame("aggregateShadowCognition", f, acc)
     /\ shadowCognition' = acc.a
     /\ UNCHANGED <<rhythmMap, healthEcho, deviceSignals, obscuraPatterns, cognitiveMirror,
                    emotionForecast, recoveryEngine, lifeEvents, pending>>

\* ---------------------------------------------- aggregateObscuraPatterns

\* cameraCaptures where uid == u, createdAt >= from, createdAt < to.
CapturesSnapshot(u, from, to) ==
  LET hits == {c \in cameraCaptures :
                 c.uid = u /\ c.createdAt >= from /\ c.createdAt < to}
  IN Expand(SortByKey(hits, [c \in hits |-> c.createdAt]))

FaceTiltScore(docs) ==
  10 * Cardinality({i \in DOMAIN docs :
                      docs[i].cameraAngle # "" /\ docs[i].cameraAngle # "straight"})

StillnessIndex(docs) ==
  5 * Cardinality({i \in DOMAIN docs :
                     docs[i].objectTags # -1 /\ docs[i].objectTags < 3})

ObscuraUser(acc, u, f, at) ==
  LET yesterday == at - HoursPerDay
      dateKey == DateKey(yesterday)
      docs == CapturesSnapshot(u, yesterday - HoursPerDay, yesterday)
      faceTiltScore == FaceTiltScore(docs)
      stillnessIndex == StillnessIndex(docs)
      patterns == [id |-> acc.id, userId |-> u, date |-> dateKey,
                   faceTiltScore |-> faceTiltScore, cancelBehaviorCount |-> 0,
                   stillnessIndex |-> stillnessIndex, timestamp |-> at,
                   postureShifts |-> faceTiltScore * 2,
                   microExpressionChanges |-> faceTiltScore \div 2,
                   environmentalStillness |-> stillnessIndex]
  IN IF f = FailAt(u, "read") THEN Thrown(acc, u)
     ELSE IF docs = <<>> THEN acc
     ELSE IF f = FailAt(u, "set1") THEN Thrown(acc, u)
     ELSE [acc EXCEPT !.a = @ \cup {patterns}, !.id = @ + 1,
                      !.done = Append(@, u)]

\* ObscuraLoop that leaves the loop at the first user without captures.
RECURSIVE ObscuraLoop_BreakOnEmpty(_, _, _, _)
ObscuraLoop_BreakOnEmpty(acc, docs, f, at) ==
  IF docs = <<>> \/ acc.failedUser # -1 THEN acc
  ELSE IF ObscuraUser(acc, Head(docs), NoFail, at) = acc THEN acc
  ELSE ObscuraLoop_BreakOnEmpty(ObscuraUser(acc, Head(docs), f, at),
                                Tail(docs), f, at)

RECURSIVE ObscuraLoop(_, _, _, _)
ObscuraLoop(acc, docs, f, at) ==
  IF docs = <<>> \/ acc.failedUser # -1 THEN acc
  ELSE ObscuraLoop(ObscuraUser(acc, Head(docs), f, at), Tail(docs), f, at)

AggregateObscuraPatterns(f) ==
  LET acc == ObscuraLoop(StartAcc(obscuraPatterns, {}, f), UsersSnapshot, f, now)
  IN /\ JobFrame("aggregateObscuraPatterns", f, acc)
     /\ obscuraPatterns' = acc.a
     /\ UNCHANGED <<rhythmMap, healthEcho, deviceSignals, shadowCognition,
                    cognitiveMirror, emotionForecast, recoveryEngine, lifeEvents,
                    pending>>

\* ----------------------------------------------- generateCognitiveMirror

\* Firestore returns the documents of a query in the order of the fields it
\* filters or sorts on, and documents equal in them in the order of their ids.
OrderKey(field, id) == field * 100000 + id

VoiceSnapshot(u, from, to) ==
  LET hits == {e \in voiceEvents :
                 e.uid = u /\ e.createdAt >= from /\ e.createdAt < to}
  IN Expand(SortByKey(hits, [e \in hits |-> e.createdAt]))

DeviceSignalsSnapshot(u, from, to) ==
  LET hits == {d \in deviceSignals :
                 d.userId = u /\ d.timestamp >= from /\ d.timestamp < to}
  IN SortByKey(hits, [d \in hits |-> OrderKey(d.timestamp, d.id)])

\* collection where userId == u and date == dateKey
ByUserAndDate(collection, u, dateKey) ==
  LET hits == {d \in collection : d.userId = u /\ d.date = dateKey}
  IN SortByKey(hits, [d \in hits |-> d.id])

\* The sum of the sentiment scores, in hundredths.
TotalSentiment(docs) == Sum([i \in DOMAIN docs |-> docs[i].sentimentScore])

MoodScore(voiceDocs) ==
  IF voiceDocs = <<>> THEN Whole(50)
  ELSE FMax(Whole(0), FMin(Whole(100),
         FAdd(Whole(50),
              FMul(Frac(TotalSentiment(voiceDocs), 100 * Len(voiceDocs)),
                   Whole(50)))))

NotificationStress(deviceData) ==
  Whole(Min(40, deviceData.notificationCount * 2))

ScreenTimeStress(deviceData) ==
  FMin(Whole(30), FDivInt(deviceData.screenTimeMinutes, 10))

FrictionStress(shadowData) == Whole(Min(30, shadowData.frictionTaps * 3))

\* StressIndex without the final Math.min(100, stressIndex).
StressIndex_Unclamped(deviceDocs, shadowDocs) ==
  FAdd(Whole(30),
       FAdd(IF deviceDocs # <<>>
            THEN FAdd(NotificationStress(deviceDocs[1]),
                      ScreenTimeStress(deviceDocs[1]))
            ELSE Whole(0),
            IF shadowDocs # <<>> THEN FrictionStress(shadowDocs[1]) ELSE Whole(0)))

StressIndex(deviceDocs, shadowDocs) ==
  LET base == Whole(30)
      withDevice ==
        IF deviceDocs # <<>>
        THEN FAdd(base, FAdd(NotificationStress(deviceDocs[1]),
                             ScreenTimeStress(deviceDocs[1])))
        ELSE base
      withShadow ==
        IF shadowDocs # <<>>
        THEN FAdd(withDevice, FrictionStress(shadowDocs[1]))
        ELSE withDevice
  IN FMin(Whole(100), withShadow)

MoodHigh == "You had a particularly positive day with uplifting conversations"
MoodLow == "Today felt heavy - your voice carried more tension than usual"
StressHigh == "High digital activity and friction suggests elevated stress"
StressLow == "You maintained good digital balance today"
RhythmStable == "Your sleep and movement patterns were well-balanced"
RhythmOff == "Your natural rhythms were disrupted today"

\* HighlightInsights with the rhythm band checked first.
HighlightInsights_RhythmFirst(moodScore, stressIndex, rhythmDocs) ==
  (IF rhythmDocs = <<>> THEN <<>>
   ELSE IF rhythmDocs[1].rhythmState = "Stable" THEN <<RhythmStable>>
   ELSE IF rhythmDocs[1].rhythmState = "Off-Rhythm" THEN <<RhythmOff>>
   ELSE <<>>)
  \o
  (IF FLt(Whole(70), moodScore) THEN <<MoodHigh>>
   ELSE IF FLt(moodScore, Whole(30)) THEN <<MoodLow>> ELSE <<>>)
  \o
  (IF FLt(Whole(70), stressIndex) THEN <<StressHigh>>
   ELSE IF FLt(stressIndex, Whole(30)) THEN <<StressLow>> ELSE <<>>)

\* HighlightInsights with the low-stress band starting at 30 instead of below.
HighlightInsights_LowStressAt30(moodScore, stressIndex, rhythmDocs) ==
  (IF FLt(Whole(70), moodScore) THEN <<MoodHigh>>
   ELSE IF FLt(moodScore, Whole(30)) THEN <<MoodLow>> ELSE <<>>)
  \o
  (IF FLt(Whole(70), stressIndex) THEN <<StressHigh>>
   ELSE IF FLe(stressIndex, Whole(30)) THEN <<StressLow>> ELSE <<>>)
  \o
  (IF rhythmDocs = <<>> THEN <<>>
   ELSE IF rhythmDocs[1].rhythmState = "Stable" THEN <<RhythmStable>>
   ELSE IF rhythmDocs[1].rhythmState = "Off-Rhythm" THEN <<RhythmOff>>
   ELSE <<>>)

HighlightInsights(moodScore, stressIndex, rhythmDocs) ==
  (IF FLt(Whole(70), moodScore) THEN <<MoodHigh>>
   ELSE IF FLt(moodScore, Whole(30)) THEN <<MoodLow>> ELSE <<>>)
  \o
  (IF FLt(Whole(70), stressIndex) THEN <<StressHigh>>
   ELSE IF FLt(stressIndex, Whole(30)) THEN <<StressLow>> ELSE <<>>)
  \o
  (IF rhythmDocs = <<>> THEN <<>>
   ELSE IF rhythmDocs[1].rhythmState = "Stable" THEN <<RhythmStable>>
   ELSE IF rhythmDocs[1].rhythmState = "Off-Rhythm" THEN <<RhythmOff>>
   ELSE <<>>)

MirrorUser(acc, u, f, at) ==
  LET yesterday == at - HoursPerDay
      dateKey == DateKey(yesterday)
      startTime == yesterday - HoursPerDay
      endTime == yesterday
      voiceDocs == VoiceSnapshot(u, startTime, endTime)
      deviceDocs == DeviceSignalsSnapshot(u, startTime, endTime)
      shadowDocs == ByUserAndDate(shadowCognition, u, dateKey)
      rhythmDocs == ByUserAndDate(rhythmMap, u, dateKey)
      moodScore == MoodScore(voiceDocs)
      stressIndex == StressIndex(deviceDocs, shadowDocs)
      energyLevel == FSub(Whole(100), stressIndex)
      mirror == [id |-> acc.id, userId |-> u, date |-> dateKey,
                 moodScore |-> FRound(moodScore),
                 stressIndex |-> FRound(stressIndex),
                 highlightInsights |->
                   HighlightInsights(moodScore, stressIndex, rhythmDocs),
                 timestamp |-> at,
                 energyLevel |-> energyLevel,
                 socialConnection |-> Min(100, Len(voiceDocs) * 10),
                 purposeAlignment |->
                   FRound(FDivInt(FAdd(moodScore, energyLevel), 2))]
  IN IF f = FailAt(u, "read") THEN Thrown(acc, u)
     ELSE IF f = FailAt(u, "set1") THEN Thrown(acc, u)
     ELSE [acc EXCEPT !.a = @ \cup {mirror}, !.id = @ + 1,
                      !.done = Append(@, u)]

RECURSIVE MirrorLoop(_, _, _, _)
MirrorLoop(acc, docs, f, at) ==
  IF docs = <<>> \/ acc.failedUser # -1 THEN acc
  ELSE MirrorLoop(MirrorUser(acc, Head(docs), f, at), Tail(docs), f, at)

\* Every document created in cognitiveMirror is delivered to the triggers
\* registered on cognitiveMirror/{mirrorId}.
GenerateCognitiveMirror(f) ==
  LET acc == MirrorLoop(StartAcc(cognitiveMirror, {}, f), UsersSnapshot, f, now)
  IN /\ JobFrame("generateCognitiveMirror", f, acc)
     /\ cognitiveMirror' = acc.a
     /\ pending' = IF "detectBehavioralRecovery" \in scheduled
                    THEN pending \cup {m.id : m \in acc.a \ cognitiveMirror}
                    ELSE pending
     /\ UNCHANGED <<rhythmMap, healthEcho, deviceSignals, shadowCognition,
                    obscuraPatterns, emotionForecast, recoveryEngine, lifeEvents>>

\* ----------------------------------------------- generateEmotionForecast

Reverse(s) == [i \in 1 .. Len(s) |-> s[Len(s) + 1 - i]]

\* Array#slice(0, n)
Take(s, n) == SubSeq(s, 1, Min(n, Len(s)))

\* cognitiveMirror where userId == u and date >= from, in ascending order of
\* date.
MirrorsSince(u, from) ==
  LET hits == {m \in cognitiveMirror : m.userId = u /\ m.date >= from}
  IN SortByKey(hits, [m \in hits |-> OrderKey(m.date, m.id)])

\* cognitiveMirror where userId == u and from <= date <= to, in ascending
\* order of date.
MirrorsBetween(u, from, to) ==
  LET hits == {m \in cognitiveMirror :
                 m.userId = u /\ m.date >= from /\ m.date <= to}
  IN SortByKey(hits, [m \in hits |-> OrderKey(m.date, m.id)])

SumMood(docs) == Sum([i \in DOMAIN docs |-> docs[i].moodScore])
SumStress(docs) == Sum([i \in DOMAIN docs |-> docs[i].stressIndex])

\* EnoughHistory with a minimum of eight records.
EnoughHistory_EightRecords(docs) == ~(Len(docs) < 8)

\* The forecast needs a week of records.
EnoughHistory(docs) == ~(Len(docs) < 7)

\* The records of the weekday of tomorrow.
SameDayHistory(docs, today) ==
  SelectSeq(docs, LAMBDA d : GetDay(d.date) = (GetDay(DateKey(today)) + 1) % 7)

\* The forecast of the weekly pattern; the confidence is in hundredths.
SeasonalForecast(sameDayHistory) ==
  IF Len(sameDayHistory) > 2
  THEN LET avgSameDayMood == Frac(SumMood(Take(sameDayHistory, 4)),
                                  Min(4, Len(sameDayHistory)))
       IN IF FLt(Whole(70), avgSameDayMood)
            THEN [predictedMood |-> "positive", confidence |-> 75]
          ELSE IF FLt(avgSameDayMood, Whole(40))
            THEN [predictedMood |-> "challenging", confidence |-> 70]
          ELSE [predictedMood |-> "stable", confidence |-> 60]
  ELSE [predictedMood |-> "stable", confidence |-> 60]

TrendSlope(recentWeek) ==
  Frac(recentWeek[1].moodScore - recentWeek[7].moodScore, 6)

\* TrendAdjustment that is skipped when the seasonal rule has fired.
TrendAdjustment_OnlyWithoutSeasonal(seasonal, trendSlope) ==
  IF seasonal.confidence # 60 THEN seasonal
  ELSE IF FLt(Whole(5), trendSlope)
    THEN [predictedMood |-> "positive", confidence |-> seasonal.confidence + 10]
  ELSE IF FLt(trendSlope, Whole(-5))
    THEN [predictedMood |-> "challenging", confidence |-> seasonal.confidence + 10]
  ELSE seasonal

\* TrendAdjustment that adds 0.3 to the confidence.
TrendAdjustment_ThreeTenths(seasonal, trendSlope) ==
  IF FLt(Whole(5), trendSlope)
    THEN [predictedMood |-> IF seasonal.predictedMood = "challenging"
                            THEN "stable" ELSE "positive",
          confidence |-> seasonal.confidence + 30]
  ELSE IF FLt(trendSlope, Whole(-5))
    THEN [predictedMood |-> IF seasonal.predictedMood = "positive"
                            THEN "stable" ELSE "challenging",
          confidence |-> seasonal.confidence + 30]
  ELSE seasonal

TrendAdjustment(seasonal, trendSlope) ==
  IF FLt(Whole(5), trendSlope)
    THEN [predictedMood |-> IF seasonal.predictedMood = "challenging"
                            THEN "stable" ELSE "positive",
          confidence |-> seasonal.confidence + 10]
  ELSE IF FLt(trendSlope, Whole(-5))
    THEN [predictedMood |-> IF seasonal.predictedMood = "positive"
                            THEN "stable" ELSE "challenging",
          confidence |-> seasonal.confidence + 10]
  ELSE seasonal

InfluencingFactors(avgRecentStress, trendSlope) ==
  (IF FLt(Whole(60), avgRecentStress) THEN <<"elevated stress patterns">> ELSE <<>>)
  \o
  (IF FLt(Whole(5), trendSlope) THEN <<"improving mood trend">>
   ELSE IF FLt(trendSlope, Whole(-5)) THEN <<"declining mood trend">>
   ELSE <<>>)

RecommendedActions(predictedMood) ==
  IF predictedMood = "challenging"
    THEN <<"Consider extra self-care tomorrow",
           "Schedule lighter activities if possible">>
  ELSE IF predictedMood = "positive"
    THEN <<"Good day to tackle challenging tasks",
           "Consider connecting with friends">>
  ELSE <<>>

ForecastUser(acc, u, f, at) ==
  LET moodHistory == Reverse(MirrorsSince(u, DateKey(at - 30 * HoursPerDay)))
      recentWeek == Take(moodHistory, 7)
      avgRecentStress == Frac(SumStress(recentWeek), Len(recentWeek))
      trendSlope == TrendSlope(recentWeek)
      forecast == TrendAdjustment(
                    SeasonalForecast(SameDayHistory(moodHistory, at)), trendSlope)
      emotionForecastDoc ==
        [id |-> acc.id, userId |-> u, date |-> DateKey(at + HoursPerDay),
         predictedMood |-> forecast.predictedMood,
         confidence |-> Round(forecast.confidence * 100, 100),
         timestamp |-> at, predictionHorizonDays |-> 1,
         influencingFactors |-> InfluencingFactors(avgRecentStress, trendSlope),
         recommendedActions |-> RecommendedActions(forecast.predictedMood)]
  IN IF f = FailAt(u, "read") THEN Thrown(acc, u)
     ELSE IF ~EnoughHistory(moodHistory) THEN acc
     ELSE IF f = FailAt(u, "set1") THEN Thrown(acc, u)
     ELSE [acc EXCEPT !.a = @ \cup {emotionForecastDoc}, !.id = @ + 1,
                      !.done = Append(@, u)]

RECURSIVE ForecastLoop(_, _, _, _)
ForecastLoop(acc, docs, f, at) ==
  IF docs = <<>> \/ acc.failedUser # -1 THEN acc
  ELSE ForecastLoop(ForecastUser(acc, Head(docs), f, at), Tail(docs), f, at)

GenerateEmotionForecast(f) ==
  LET acc == ForecastLoop(StartAcc(emotionForecast, {}, f), UsersSnapshot, f, now)
  IN /\ JobFrame("generateEmotionForecast", f, acc)
     /\ emotionForecast' = acc.a
     /\ UNCHANGED <<rhythmMap, healthEcho, deviceSignals, shadowCognition,
                    obscuraPatterns, cognitiveMirror, recoveryEngine, lifeEvents,
                    pending>>

\* ---------------------------------------------- detectBehavioralRecovery

Combined(doc) == doc.moodScore - doc.stressIndex

\* dailyScores.reduce((minIdx, current, idx) =>
\*   current.combined < dailyScores[minIdx].combined ? idx : minIdx, 0)
RECURSIVE LowestFrom(_, _, _)
LowestFrom(dailyScores, minIdx, idx) ==
  IF idx > Len(dailyScores) THEN minIdx
  ELSE LowestFrom(dailyScores,
                  IF Combined(dailyScores[idx]) < Combined(dailyScores[minIdx])
                  THEN idx ELSE minIdx,
                  idx + 1)

LowestIndex(dailyScores) == LowestFrom(dailyScores, 1, 1)

\* RecoveryDetected when either condition holds.
RecoveryDetected_Either(improvement, lowestScore) ==
  improvement > 30 \/ lowestScore < 20

RecoveryDetected(improvement, lowestScore) ==
  improvement > 30 /\ lowestScore < 20

\* RecoveryType with a tie counted as emotional.
RecoveryType_TiesEmotional(moodImprovement, stressReduction) ==
  IF moodImprovement >= stressReduction THEN "emotional" ELSE "stress_relief"

RecoveryType(moodImprovement, stressReduction) ==
  IF moodImprovement > stressReduction THEN "emotional" ELSE "stress_relief"

\* The recoveryEngine documents the trigger writes for the created document
\* mirrorData: one, or none.
RecoveryOf(mirrorData, id, at) ==
  LET dailyScores == MirrorsBetween(mirrorData.userId, mirrorData.date - 7,
                                    mirrorData.date)
      lowestIndex == LowestIndex(dailyScores)
      lowest == dailyScores[lowestIndex]
      last == dailyScores[Len(dailyScores)]
      improvement == Combined(last) - Combined(lowest)
      moodImprovement == mirrorData.moodScore - lowest.moodScore
      stressReduction == lowest.stressIndex - mirrorData.stressIndex
      emotional == RecoveryType(moodImprovement, stressReduction) = "emotional"
  IN IF Len(dailyScores) < 3 THEN {}
     ELSE IF ~(lowestIndex < Len(dailyScores)) THEN {}
     ELSE IF ~RecoveryDetected(improvement, Combined(lowest)) THEN {}
     ELSE {[id |-> id, userId |-> mirrorData.userId, startDate |-> lowest.date,
            reboundDetected |-> TRUE, improvementScore |-> improvement,
            timestamp |-> at,
            recoveryType |-> IF emotional THEN "emotional" ELSE "stress_relief",
            triggerEvent |-> IF emotional THEN "mood_rebound" ELSE "stress_reduction",
            durationDays |-> Len(dailyScores) - lowestIndex]}

\* The trigger on cognitiveMirror/{mirrorId} for the created document
\* mirrorId; a store call that throws is caught and logged.
DetectBehavioralRecovery(mirrorId, f) ==
  LET mirrorData == CHOOSE m \in cognitiveMirror : m.id = mirrorId
      written == IF f = NoFail THEN RecoveryOf(mirrorData, nextId, now) ELSE {}
  IN /\ mirrorId \in pending
     /\ f # NoFail => failures < MaxFailures
     /\ f = FailAt(mirrorData.userId, "set1")
          => RecoveryOf(mirrorData, nextId, now) # {}
     /\ failures' = IF f = NoFail THEN failures ELSE failures + 1
     /\ pending' = pending \ {mirrorId}
     /\ recoveryEngine' = recoveryEngine \cup written
     /\ nextId' = nextId + Cardinality(written)
     /\ UNCHANGED <<now, ran, scheduled, users, raw, rhythmMap, healthEcho,
                    deviceSignals, shadowCognition, obscuraPatterns,
                    cognitiveMirror, emotionForecast, lifeEvents, lastRun, aux>>

\* ----------------------------------------------------- detectLifeEvents

\* Array#slice(n)
Drop(s, n) == SubSeq(s, n + 1, Len(s))

\* EventType with the band of a significant mood change starting above 25.
EventType_MoodAbove25(moodShift, stressShift) ==
  IF FLt(Whole(25), moodShift) /\ FLt(stressShift, Whole(-15))
    THEN "positive_life_change"
  ELSE IF FLt(moodShift, Whole(-25)) /\ FLt(Whole(15), stressShift)
    THEN "challenging_life_event"
  ELSE IF FLt(Whole(25), FAbs(stressShift)) THEN "major_stress_shift"
  ELSE IF FLt(Whole(25), FAbs(moodShift)) THEN "significant_mood_change"
  ELSE "unknown_transition"

EventType(moodShift, stressShift) ==
  IF FLt(Whole(25), moodShift) /\ FLt(stressShift, Whole(-15))
    THEN "positive_life_change"
  ELSE IF FLt(moodShift, Whole(-25)) /\ FLt(Whole(15), stressShift)
    THEN "challenging_life_event"
  ELSE IF FLt(Whole(25), FAbs(stressShift)) THEN "major_stress_shift"
  ELSE IF FLt(Whole(30), FAbs(moodShift)) THEN "significant_mood_change"
  ELSE "unknown_transition"

SignificantShift(moodShift, stressShift) ==
  FLt(Whole(25), FAbs(moodShift)) \/ FLt(Whole(20), FAbs(stressShift))

LifeEventUser(acc, u, f, at) ==
  LET docs == MirrorsSince(u, DateKey(at - 28 * HoursPerDay))
      firstHalf == Take(docs, Len(docs) \div 2)
      secondHalf == Drop(docs, Len(docs) \div 2)
      moodShift == FSub(Frac(SumMood(secondHalf), Len(secondHalf)),
                        Frac(SumMood(firstHalf), Len(firstHalf)))
      stressShift == FSub(Frac(SumStress(secondHalf), Len(secondHalf)),
                          Frac(SumStress(firstHalf), Len(firstHalf)))
      lifeEvent ==
        [id |-> acc.id, userId |-> u,
         eventType |-> EventType(moodShift, stressShift),
         detectedOn |-> DateKey(at),
         metricsInvolved |-> <<"mood", "stress">>,
         timestamp |-> at,
         significance |-> FMax(FAbs(moodShift), FAbs(stressShift)),
         correlatedChanges |-> [moodShift |-> FRound(moodShift),
                                stressShift |-> FRound(stressShift)]]
  IN IF f = FailAt(u, "read") THEN Thrown(acc, u)
     ELSE IF Len(docs) < 14 THEN acc
     ELSE IF ~SignificantShift(moodShift, stressShift) THEN acc
     ELSE IF f = FailAt(u, "set1") THEN Thrown(acc, u)
     ELSE [acc EXCEPT !.a = @ \cup {lifeEvent}, !.id = @ + 1,
                      !.done = Append(@, u)]

RECURSIVE LifeEventLoop(_, _, _, _)
LifeEventLoop(acc, docs, f, at) ==
  IF docs = <<>> \/ acc.failedUser # -1 THEN acc
  ELSE LifeEventLoop(LifeEventUser(acc, Head(docs), f, at), Tail(docs), f, at)

DetectLifeEvents(f) ==
  LET acc == LifeEventLoop(StartAcc(lifeEvents, {}, f), UsersSnapshot, f, now)
  IN /\ JobFrame("detectLifeEvents", f, acc)
     /\ lifeEvents' = acc.a
     /\ UNCHANGED <<rhythmMap, healthEcho, deviceSignals, shadowCognition,
                    obscuraPatterns, cognitiveMirror, emotionForecast,
                    recoveryEngine, pending>>

\* ------------------------------------------------------- stored history

\* The CognitiveMirror that generateCognitiveMirror wrote on the day after
\* date for a user whose day gave the mood and stress given: no conversation
\* when the mood is 50, one otherwise, and no RhythmMap.
PastMirror(id, u, date, mood, stress) ==
  [id |-> id, userId |-> u, date |-> date,
   moodScore |-> mood, stressIndex |-> stress,
   highlightInsights |-> HighlightInsights(Whole(mood), Whole(stress), <<>>),
   timestamp |-> (date + 1) * HoursPerDay + MirrorHour,
   energyLevel |-> Whole(100 - stress),
   socialConnection |-> IF mood = 50 THEN 0 ELSE 10,
   purposeAlignment |-> FRound(FDivInt(Whole(mood + 100 - stress), 2))]

\* The records of user 1 on the dates of days, written in the order of the
\* dates; mood and stress are functions on days.
History(days, mood, stress) ==
  {PastMirror(Cardinality({e \in days : e <= d}), 1, d, mood[d], stress[d]) :
     d \in days}

\* The store after the history mirrors and the raw voice events voice.
StoreWith(mirrors, voice) ==
  /\ telemetryEvents = {}
  /\ voiceEvents = voice
  /\ cameraCaptures = {}
  /\ rhythmMap = {}
  /\ healthEcho = {}
  /\ deviceSignals = {}
  /\ shadowCognition = {}
  /\ obscuraPatterns = {}
  /\ cognitiveMirror = mirrors
  /\ emotionForecast = {}
  /\ recoveryEngine = {}
  /\ lifeEvents = {}
  /\ nextId = Cardinality(mirrors) + 1
  /\ pending = {}
  /\ lastRun = NoRun
  /\ failures = 0
  /\ redelivered = 0
  /\ NoCalls
  /\ rhythmScores = {}
  /\ scored = {}
  /\ NoSide

\* ------------------------------------------------- the daily cycle (Spec)

DailyJobs == {"aggregateDailyHealthMetrics", "aggregateDeviceSignals",
              "aggregateShadowCognition", "generateCognitiveMirror"}

EmptyBase ==
  /\ telemetryEvents = {}
  /\ voiceEvents = {}
  /\ cameraCaptures = {}
  /\ rhythmMap = {}
  /\ healthEcho = {}
  /\ deviceSignals = {}
  /\ shadowCognition = {}
  /\ obscuraPatterns = {}
  /\ cognitiveMirror = {}
  /\ emotionForecast = {}
  /\ recoveryEngine = {}
  /\ lifeEvents = {}
  /\ nextId = 1
  /\ pending = {}
  /\ lastRun = NoRun
  /\ failures = 0
  /\ redelivered = 0
  /\ NoCalls
  /\ rhythmScores = {}
  /\ scored = {}

EmptyStore == EmptyBase /\ NoSide

\* The clock starts at 00:00 of day 1.
Init ==
  /\ now = HoursPerDay
  /\ ran = {}
  /\ scheduled = DailyJobs
  /\ users = Users
  /\ EmptyStore

\* The raw events of the daily cycle: a short walk, one notification.
CycleTelemetry ==
  {[type |-> "motion_event", duration |-> 600, copies |-> 1],
   [type |-> "notification_received", duration |-> 0, copies |-> 1]}

LogCycleTelemetry ==
  /\ RawCount < MaxRawBatches
  /\ \E u \in users, b \in CycleTelemetry :
       LogTelemetry(u, b.type, b.duration, b.copies)

HealthJob == \E f \in Faults({"read", "set1", "set2"}) : AggregateDailyHealthMetrics(f)
DeviceJob == \E f \in Faults({"read", "set1"}) : AggregateDeviceSignals(f)
ShadowJob == \E f \in Faults({"read", "set1"}) : AggregateShadowCognition(f)
MirrorJob == \E f \in Faults({"read", "set1"}) : GenerateCognitiveMirror(f)

Next ==
  \/ Tick(MaxHour)
  \/ LogCycleTelemetry
  \/ HealthJob
  \/ DeviceJob
  \/ ShadowJob
  \/ MirrorJob

Spec == Init /\ [][Next]_vars

\* ------------------------------------------------------------ claims, Spec

\* What a run of job at the hour at leaves in the store for a user it has
\* processed (the aggregators skip a user whose window holds no event).
HasTelemetry(u, at) ==
  TelemetrySnapshot(u, at - 2 * HoursPerDay, at - HoursPerDay) # <<>>

Processed(job, u, at) ==
  CASE job = "aggregateDailyHealthMetrics" ->
         HasTelemetry(u, at) =>
           /\ \E r \in rhythmMap : r.userId = u /\ r.createdAt = at
           /\ \E h \in healthEcho : h.userId = u /\ h.createdAt = at
    [] job = "aggregateDeviceSignals" ->
         HasTelemetry(u, at) =>
           \E d \in deviceSignals : d.userId = u /\ d.timestamp = at
    [] job = "aggregateShadowCognition" ->
         HasTelemetry(u, at) =>
           \E d \in shadowCognition : d.userId = u /\ d.timestamp = at
    [] job = "generateCognitiveMirror" ->
         \E m \in cognitiveMirror : m.userId = u /\ m.timestamp = at
    [] OTHER -> TRUE

\* C1: when a store call fails while a scheduled job processes user k, the
\* failure is caught for that user only: every user after k in the same run
\* is still processed and the records of that user are written.
C1_FailureIsCaughtPerUser ==
  lastRun.failedUser >= 1 =>
    \A u \in users :
      u > lastRun.failedUser => Processed(lastRun.job, u, lastRun.at)

\* C2: a run of aggregateDailyHealthMetrics at the time T aggregates for a
\* user exactly the telemetry of the UTC day before T's day, from 00:00 to
\* 00:00, and dates the RhythmMap it writes with that day.
C2_AggregatesPreviousUtcDay ==
  \A r \in rhythmMap :
    LET day == DateKey(r.createdAt)
        docs == TelemetrySnapshot(r.userId, (day - 1) * HoursPerDay,
                                  day * HoursPerDay)
    IN /\ r.date = day - 1
       /\ docs # <<>>
       /\ r.movementScore = MovementScore(SumDuration(docs, "motion_event"))

\* C3: the DeviceSignal and ShadowCognition that generateCognitiveMirror
\* combines into a CognitiveMirror are the ones the aggregators wrote for
\* the user earlier in the same daily cycle (at 03:00 and 04:00 of the day
\* of the 06:00 run).
SameCycle(collection, m) ==
  LET hits == {d \in collection :
                 d.userId = m.userId /\ DateKey(d.timestamp) = DateKey(m.timestamp)}
  IN SortByKey(hits, [d \in hits |-> d.id])

C3_MirrorReadsSameCycle ==
  \A m \in cognitiveMirror :
    m.stressIndex =
      FRound(StressIndex(SameCycle(deviceSignals, m), SameCycle(shadowCognition, m)))

\* ------------------------------------- the health aggregator (SpecRhythm)

InitRhythm ==
  /\ now = HoursPerDay
  /\ ran = {}
  /\ scheduled = {"aggregateDailyHealthMetrics"}
  /\ users = {1}
  /\ EmptyStore

\* Motion of a day: a short walk, walks that give the scores 20 and 81, and
\* 101 motion events of ten seconds and of one minute.
MotionTelemetry ==
  {[duration |-> 600, copies |-> 1],
   [duration |-> 1200, copies |-> 1],
   [duration |-> 4860, copies |-> 1],
   [duration |-> 10, copies |-> 101],
   [duration |-> 60, copies |-> 101]}

LogMotion ==
  /\ RawCount < MaxRawBatches
  /\ \E u \in users, b \in MotionTelemetry :
       LogTelemetry(u, "motion_event", b.duration, b.copies)

NextRhythm ==
  \/ Tick(MaxHour)
  \/ LogMotion
  \/ HealthJob

SpecRhythm == InitRhythm /\ [][NextRhythm]_vars

\* The telemetry a RhythmMap was computed from.
MotionOf(r) ==
  TelemetrySnapshot(r.userId, r.createdAt - 2 * HoursPerDay,
                    r.createdAt - HoursPerDay)

\* C4: every RhythmMap has rhythmState Off-Rhythm when sleepHours < 6 or
\* movementScore < 20, whatever the number of motion events, otherwise
\* Overstimulated when movementScore > 80 and there are more than 100 motion
\* events, otherwise Stable; movementScore is min(100, total duration / 60),
\* never above 100 and non-decreasing in the total duration.
C4_RhythmStateAndMovementScore ==
  \A r \in rhythmMap :
    LET total == SumDuration(MotionOf(r), "motion_event")
        count == CountType(MotionOf(r), "motion_event")
        score == r.movementScore
    IN /\ score = (IF total >= 6000 THEN Whole(100) ELSE Frac(total, 60))
       /\ FLe(score, Whole(100))
       /\ r.rhythmState =
            (IF r.sleepHours < 6 \/ FLt(score, Whole(20)) THEN "Off-Rhythm"
             ELSE IF FLt(Whole(80), score) /\ count > 100 THEN "Overstimulated"
             ELSE "Stable")
       /\ \A q \in rhythmMap :
            total <= SumDuration(MotionOf(q), "motion_event")
              => FLe(score, q.movementScore)

\* An Overstimulated day with the score capped at 100, and an Off-Rhythm day
\* with more than 100 motion events.
C4_Witness ==
  /\ \E r \in rhythmMap :
       /\ r.rhythmState = "Overstimulated"
       /\ r.movementScore = Whole(100)
       /\ SumDuration(MotionOf(r), "motion_event") > 6000
  /\ \E r \in rhythmMap :
       /\ r.rhythmState = "Off-Rhythm"
       /\ CountType(MotionOf(r), "motion_event") > 100

\* -------------------------------------- the cognitive mirror (SpecMirror)

MaxMirrorBatches == 3

\* The days, from the first, on which raw events arrive.
MirrorLogDays == 1

InitMirror ==
  /\ now = HoursPerDay
  /\ ran = {}
  /\ scheduled = DailyJobs
  /\ users = {1}
  /\ EmptyStore

\* Device activity of a day: 25 notifications, 350 and 5 minutes of screen
\* time, 12 and 2 apps opened in a row.
MirrorTelemetry ==
  {[type |-> "notification_received", duration |-> 0, copies |-> 25],
   [type |-> "screen_on", duration |-> 21000000, copies |-> 1],
   [type |-> "screen_on", duration |-> 300000, copies |-> 1],
   [type |-> "app_opened", duration |-> 0, copies |-> 12],
   [type |-> "app_opened", duration |-> 0, copies |-> 2]}

\* Conversations of a day: ten of sentiment 1, one of sentiment -1, three of
\* sentiment 0.33.
MirrorVoice ==
  {[sentiment |-> 100, copies |-> 10],
   [sentiment |-> -100, copies |-> 1],
   [sentiment |-> 33, copies |-> 3]}

LogMirrorTelemetry ==
  /\ RawCount < MaxMirrorBatches
  /\ now < (1 + MirrorLogDays) * HoursPerDay
  /\ \E u \in users, b \in MirrorTelemetry :
       LogTelemetry(u, b.type, b.duration, b.copies)

LogMirrorVoice ==
  /\ RawCount < MaxMirrorBatches
  /\ now < (1 + MirrorLogDays) * HoursPerDay
  /\ \E u \in users, b \in MirrorVoice : LogVoice(u, b.sentiment, b.copies)

NextMirror ==
  \/ Tick(MaxHour)
  \/ LogMirrorTelemetry
  \/ LogMirrorVoice
  \/ AggregateDailyHealthMetrics(NoFail)
  \/ AggregateDeviceSignals(NoFail)
  \/ AggregateShadowCognition(NoFail)
  \/ GenerateCognitiveMirror(NoFail)

SpecMirror == InitMirror /\ [][NextMirror]_vars

\* What the run that wrote the CognitiveMirror m read.
DeviceOf(m) ==
  DeviceSignalsSnapshot(m.userId, m.timestamp - 2 * HoursPerDay,
                        m.timestamp - HoursPerDay)
ShadowOf(m) == ByUserAndDate(shadowCognition, m.userId, m.date)
VoiceOf(m) ==
  VoiceSnapshot(m.userId, m.timestamp - 2 * HoursPerDay,
                m.timestamp - HoursPerDay)

\* C5: the stressIndex of a CognitiveMirror is 30 + min(40, 2 * notifications)
\* + min(30, screenTimeMinutes / 10) + min(30, 3 * frictionTaps), each term
\* capped before the sum, a missing DeviceSignal or ShadowCognition counting
\* 0, and the stored value lies in 0 .. 100.
C5_StressIndex ==
  \A m \in cognitiveMirror :
    LET n == IF DeviceOf(m) = <<>> THEN 0 ELSE DeviceOf(m)[1].notificationCount
        minutes == IF DeviceOf(m) = <<>> THEN Whole(0)
                   ELSE DeviceOf(m)[1].screenTimeMinutes
        taps == IF ShadowOf(m) = <<>> THEN 0 ELSE ShadowOf(m)[1].frictionTaps
        notifications == IF 2 * n > 40 THEN 40 ELSE 2 * n
        screen == IF FLt(Whole(300), minutes) THEN Whole(30)
                  ELSE Frac(minutes.n, minutes.d * 10)
        friction == IF 3 * taps > 30 THEN 30 ELSE 3 * taps
        sum == FAdd(Whole(30 + notifications + friction), screen)
        clamped == IF FLt(Whole(100), sum) THEN Whole(100) ELSE sum
    IN /\ m.stressIndex = FRound(clamped)
       /\ m.stressIndex \in 0 .. 100

\* All three terms at their caps: the sum is 130 and is stored as 100.
C5_Witness ==
  \E m \in cognitiveMirror :
    /\ DeviceOf(m) # <<>>
    /\ ShadowOf(m) # <<>>
    /\ DeviceOf(m)[1].notificationCount > 20
    /\ FLt(Whole(300), DeviceOf(m)[1].screenTimeMinutes)
    /\ ShadowOf(m)[1].frictionTaps > 10
    /\ m.stressIndex = 100

\* C10: ten voice events of sentiment 1 and neither a DeviceSignal nor a
\* ShadowCognition give a CognitiveMirror with moodScore 100, stressIndex 30,
\* the insight of a mood above 70 and neither insight on stress; the run
\* writes one record for every user.
TenPositiveOnly(m) ==
  /\ Len(VoiceOf(m)) = 10
  /\ \A i \in 1 .. 10 : VoiceOf(m)[i].sentimentScore = 100
  /\ DeviceOf(m) = <<>>
  /\ ShadowOf(m) = <<>>

InList(x, list) == \E i \in 1 .. Len(list) : list[i] = x

C10_TenPositiveVoiceEvents ==
  /\ \A m \in cognitiveMirror :
       TenPositiveOnly(m) =>
         /\ m.moodScore = 100
         /\ m.stressIndex = 30
         /\ InList(MoodHigh, m.highlightInsights)
         /\ ~InList(StressHigh, m.highlightInsights)
         /\ ~InList(StressLow, m.highlightInsights)
  /\ (lastRun.job = "generateCognitiveMirror" /\ ~lastRun.error) =>
       \A u \in users :
         Cardinality({m \in cognitiveMirror :
                        m.userId = u /\ m.timestamp = lastRun.at}) = 1

C10_Witness == \E m \in cognitiveMirror : TenPositiveOnly(m)

\* The band an insight belongs to: 1 mood, 2 stress, 3 rhythm.
BandOf(insight) ==
  IF insight \in {MoodHigh, MoodLow} THEN 1
  ELSE IF insight \in {StressHigh, StressLow} THEN 2
  ELSE IF insight \in {RhythmStable, RhythmOff} THEN 3
  ELSE 0

\* The bands that fire for the CognitiveMirror m: the mood above 70 or below
\* 30, the stress above 70 or below 30, the rhythm state Stable or Off-Rhythm.
BandsFiring(m) ==
  LET mood == MoodScore(VoiceOf(m))
      stress == StressIndex(DeviceOf(m), ShadowOf(m))
      rhythm == {r \in rhythmMap : r.userId = m.userId /\ r.date = m.date}
  IN {b \in {1} : FLt(Whole(70), mood) \/ FLt(mood, Whole(30))}
     \cup {b \in {2} : FLt(Whole(70), stress) \/ FLt(stress, Whole(30))}
     \cup {b \in {3} : \E r \in rhythm : r.rhythmState \in {"Stable", "Off-Rhythm"}}

\* C17: highlightInsights holds at most three entries, at most one of each
\* band, in the order mood, stress, rhythm, and none when no band fires.
C17_OneInsightPerBandInOrder ==
  \A m \in cognitiveMirror :
    LET insights == m.highlightInsights
    IN /\ Len(insights) <= 3
       /\ \A i \in DOMAIN insights : BandOf(insights[i]) \in BandsFiring(m)
       /\ \A i, j \in DOMAIN insights :
            i < j => BandOf(insights[i]) < BandOf(insights[j])
       /\ BandsFiring(m) = {} => insights = <<>>

\* A record with an insight of every band, and a record of a day on which no
\* band fired.
C17_Witness ==
  /\ \E m \in cognitiveMirror :
       m.highlightInsights = <<MoodHigh, StressHigh, RhythmOff>>
  /\ \E m \in cognitiveMirror :
       BandsFiring(m) = {} /\ m.highlightInsights = <<>>

\* C18: the stored energyLevel is 100 minus the stored stressIndex, and the
\* stored purposeAlignment is the rounded mean of the stored moodScore and the
\* stored energyLevel.
C18_EnergyAndPurposeFromStoredFields ==
  \A m \in cognitiveMirror :
    /\ m.energyLevel = Whole(100 - m.stressIndex)
    /\ m.purposeAlignment = FRound(FDivInt(FAdd(Whole(m.moodScore), m.energyLevel), 2))

\* ------------------------------------ the emotion forecast (SpecForecast)

MaxForecastBatches == 1

\* Stored histories, as days before the first day: five and six days in a
\* row, the same with a record 30 and 31 days back, and records of the
\* weekdays of the first three forecasts.
ForecastDayOffsets ==
  {{-6, -5, -4, -3, -2},
   {-7, -6, -5, -4, -3, -2},
   {-30, -6, -5, -4, -3, -2},
   {-31, -6, -5, -4, -3, -2},
   {-27, -20, -13, -6, -3, -2},
   {-25, -18, -11, -4, -3, -2}}

ForecastMoods == {20, 50, 90}
ForecastStress == {30, 70}

InitForecast ==
  /\ now = FirstDay * HoursPerDay
  /\ ran = {}
  /\ scheduled = {"generateCognitiveMirror", "generateEmotionForecast"}
  /\ users = {1}
  /\ \E offsets \in ForecastDayOffsets, old \in ForecastMoods,
        recent \in ForecastMoods, stress \in ForecastStress :
       LET days == {FirstDay + o : o \in offsets}
       IN StoreWith(History(days,
                            [d \in days |-> IF d <= FirstDay - 6 THEN old ELSE recent],
                            [d \in days |-> stress]),
                    {})

\* Conversations of a day: ten of sentiment 1, one of sentiment -1.
ForecastVoice ==
  {[sentiment |-> 100, copies |-> 10],
   [sentiment |-> -100, copies |-> 1]}

LogForecastVoice ==
  /\ RawCount < MaxForecastBatches
  /\ \E u \in users, b \in ForecastVoice : LogVoice(u, b.sentiment, b.copies)

NextForecast ==
  \/ Tick((FirstDay + ForecastDays) * HoursPerDay)
  \/ LogForecastVoice
  \/ GenerateCognitiveMirror(NoFail)
  \/ GenerateEmotionForecast(NoFail)

SpecForecast == InitForecast /\ [][NextForecast]_vars

\* The CognitiveMirror records of the user u that a forecast run at the hour
\* at finds dated within the trailing 30 days.
RecordsWithin30Days(u, at) ==
  {m \in cognitiveMirror :
     /\ m.userId = u
     /\ m.timestamp <= at
     /\ m.date >= DateKey(at) - 30}

ForecastsOf(u, at) ==
  {e \in emotionForecast : e.userId = u /\ e.timestamp = at}

\* C6: a run of generateEmotionForecast writes no EmotionForecast for a user
\* with fewer than 7 CognitiveMirror records dated within the trailing 30
\* days, and exactly one, dated tomorrow, for a user with 7 or more.
C6_ForecastNeedsSevenRecords ==
  (lastRun.job = "generateEmotionForecast" /\ ~lastRun.error) =>
    \A u \in users :
      IF Cardinality(RecordsWithin30Days(u, lastRun.at)) < 7
      THEN ForecastsOf(u, lastRun.at) = {}
      ELSE /\ Cardinality(ForecastsOf(u, lastRun.at)) = 1
           /\ \A e \in ForecastsOf(u, lastRun.at) :
                e.date = DateKey(lastRun.at) + 1

\* A run that found exactly 6 records and wrote nothing, and the run of the
\* next day, which found 7 and wrote the forecast.
C6_Witness ==
  /\ lastRun.job = "generateEmotionForecast"
  /\ lastRun.at - HoursPerDay > FirstDay * HoursPerDay
  /\ \E u \in users :
       /\ Cardinality(RecordsWithin30Days(u, lastRun.at)) = 7
       /\ Cardinality(ForecastsOf(u, lastRun.at)) = 1
       /\ Cardinality(RecordsWithin30Days(u, lastRun.at - HoursPerDay)) = 6
       /\ ForecastsOf(u, lastRun.at - HoursPerDay) = {}

\* C7: the confidence of every EmotionForecast lies in [0, 1] (here in
\* hundredths), also when the trend adjustment of 0.1 comes on top of the
\* seasonal confidence 0.75, 0.7 or 0.6.
C7_ConfidenceInUnitInterval ==
  \A e \in emotionForecast :
    /\ e.confidence >= 0
    /\ e.confidence <= 100
    /\ (InList("improving mood trend", e.influencingFactors)
          \/ InList("declining mood trend", e.influencingFactors))
         => e.confidence \in {70, 80, 85}

\* A forecast with the trend adjustment on top of the seasonal confidence
\* 0.75: a declining trend against a good weekday.
C7_Witness ==
  \E e \in emotionForecast :
    /\ e.confidence = 85
    /\ e.predictedMood = "stable"
    /\ InList("declining mood trend", e.influencingFactors)

\* The history the run that wrote the forecast e read, most recent first.
HistoryOf(e) ==
  LET records == RecordsWithin30Days(e.userId, e.timestamp)
  IN Reverse(SortByKey(records, [m \in records |-> m.date]))

\* The seasonal classification of the run that wrote the forecast e.
SeasonalOf(e) == SeasonalForecast(SameDayHistory(HistoryOf(e), e.timestamp))

\* Six times the slope: mood[0] - mood[6] over the 7 most recent records.
RiseOf(e) == HistoryOf(e)[1].moodScore - HistoryOf(e)[7].moodScore

\* C19: the trend adjustment comes after the seasonal classification, whether
\* or not the seasonal rule fired: a slope above 5 turns challenging into
\* stable and anything else into positive, a slope below -5 turns positive
\* into stable and anything else into challenging, each adding 0.1 to the
\* seasonal confidence; a slope within [-5, 5] changes nothing.
C19_TrendAdjustsSeasonal ==
  \A e \in emotionForecast :
    IF RiseOf(e) > 5 * 6
      THEN /\ e.predictedMood = IF SeasonalOf(e).predictedMood = "challenging"
                                THEN "stable" ELSE "positive"
           /\ e.confidence = SeasonalOf(e).confidence + 10
    ELSE IF RiseOf(e) < -5 * 6
      THEN /\ e.predictedMood = IF SeasonalOf(e).predictedMood = "positive"
                                THEN "stable" ELSE "challenging"
           /\ e.confidence = SeasonalOf(e).confidence + 10
    ELSE /\ e.predictedMood = SeasonalOf(e).predictedMood
         /\ e.confidence = SeasonalOf(e).confidence

\* A rising trend on top of a seasonal classification that fired: a bad
\* weekday (challenging, 0.7) becomes stable with the confidence 0.8.
C19_Witness ==
  \E e \in emotionForecast :
    /\ SeasonalOf(e).predictedMood = "challenging"
    /\ RiseOf(e) > 5 * 6
    /\ e.predictedMood = "stable"
    /\ e.confidence = 80

\* ------------------------------- the behavioural recovery (SpecRecovery)

\* The low day of a stored history: combined score 19, 20 or 21 by the mood,
\* 19 with a high stress, and 18 with the mood as far below 80 as the stress
\* is above 30.
LowDays ==
  {[mood |-> 49, stress |-> 30], [mood |-> 50, stress |-> 30],
   [mood |-> 51, stress |-> 30], [mood |-> 79, stress |-> 60],
   [mood |-> 64, stress |-> 46]}

\* The low day lies 9, 8 or 3 days before the first day.
LowDayOffsets == {-9, -8, -3}

\* Good days (mood 90, stress 30) after the low day.
GoodDayOffsets == {{}, {-2}, {-4, -2}}

\* One conversation two days before the first day: the mood of the record
\* of the first run is 79, 80, 81 or 82.
RecoverySentiments == {58, 60, 62, 64}

InitRecovery ==
  /\ now = FirstDay * HoursPerDay
  /\ ran = {}
  /\ scheduled = {"generateCognitiveMirror", "detectBehavioralRecovery"}
  /\ users = {1}
  /\ \E low \in LowDays, lowAt \in LowDayOffsets, good \in GoodDayOffsets :
       LET days == {FirstDay + o : o \in good \cup {lowAt}}
           mirrors ==
             History(days,
                     [d \in days |-> IF d = FirstDay + lowAt THEN low.mood ELSE 90],
                     [d \in days |-> IF d = FirstDay + lowAt THEN low.stress ELSE 30])
       IN \/ StoreWith(mirrors, {})
          \/ \E sentiment \in RecoverySentiments :
               StoreWith(mirrors,
                         {[uid |-> 1,
                           createdAt |-> (FirstDay - 2) * HoursPerDay + 12,
                           sentimentScore |-> sentiment, copies |-> 1]})

RecoveryTrigger == \E mirrorId \in pending : DetectBehavioralRecovery(mirrorId, NoFail)

NextRecovery ==
  \/ Tick((FirstDay + RecoveryDays) * HoursPerDay)
  \/ GenerateCognitiveMirror(NoFail)
  \/ RecoveryTrigger

SpecRecovery == InitRecovery /\ [][NextRecovery]_vars

\* The records of the 7-day window of the CognitiveMirror m, by date.
WindowOf(m) ==
  LET hits == {d \in cognitiveMirror :
                 d.userId = m.userId /\ d.date >= m.date - 7 /\ d.date <= m.date}
  IN SortByKey(hits, [d \in hits |-> OrderKey(d.date, d.id)])

\* The trough of a window: the first record with the least moodScore -
\* stressIndex.
TroughOf(window) ==
  CHOOSE i \in 1 .. Len(window) :
    /\ \A j \in 1 .. Len(window) :
         window[i].moodScore - window[i].stressIndex
           <= window[j].moodScore - window[j].stressIndex
    /\ \A j \in 1 .. (i - 1) :
         window[j].moodScore - window[j].stressIndex
           > window[i].moodScore - window[i].stressIndex

Rebound(m) ==
  LET window == WindowOf(m)
      i == TroughOf(window)
      n == Len(window)
      trough == window[i].moodScore - window[i].stressIndex
      latest == window[n].moodScore - window[n].stressIndex
  IN /\ n >= 3
     /\ i # n
     /\ latest - trough > 30
     /\ trough < 20

\* C8: on the creation of a CognitiveMirror, detectBehavioralRecovery writes
\* a recoveryEngine record if and only if the 7-day window holds at least 3
\* records, the trough (the least moodScore - stressIndex) is not the last
\* record, the improvement from the trough to the last record is strictly
\* above 30 and the trough is strictly below 20.
C8_RecoveryIffRebound ==
  [][\A mirrorId \in pending :
       pending' = pending \ {mirrorId} =>
         LET m == CHOOSE d \in cognitiveMirror : d.id = mirrorId
         IN IF Rebound(m)
            THEN Cardinality(recoveryEngine' \ recoveryEngine) = 1
            ELSE recoveryEngine' = recoveryEngine]_vars

\* An improvement of 31 from a trough of 19 is on record.
C8_Witness ==
  \E r \in recoveryEngine, m \in cognitiveMirror :
    /\ m.userId = r.userId
    /\ m.date = r.startDate
    /\ m.moodScore - m.stressIndex = 19
    /\ r.improvementScore = 31
    /\ pending = {}

FirstLifeEventDay ==
  CHOOSE d \in FirstDay .. (FirstDay + 6) : GetDay(d) = LifeEventWeekday

\* Stored histories, as days before the first run: 13, 14 and 15 days in a
\* row, and 13 days in a row with a record 28 and 29 days back.
LifeEventDayOffsets ==
  {(-13) .. (-1), (-14) .. (-1), (-15) .. (-1),
   {-28} \cup ((-13) .. (-1)), {-29} \cup ((-13) .. (-1))}

\* The number of records, oldest first, of the earlier period of a history.
EarlierRecords == {6, 7, 8}

\* Mood and stress of the earlier period, and of the later period.
EarlierDay == [mood |-> 40, stress |-> 60]
LaterMoods == {40, 65, 66, 70, 71, 15, 14, 9}
LaterStress == {60, 75, 76, 80, 81, 85, 86, 45, 44, 39, 34}

InitLifeEvents ==
  /\ now = (FirstLifeEventDay - 1) * HoursPerDay
  /\ ran = {}
  /\ scheduled = {"detectLifeEvents"}
  /\ users = {1}
  /\ \E offsets \in LifeEventDayOffsets, k \in EarlierRecords,
        mood \in LaterMoods, stress \in LaterStress :
       LET days == {FirstLifeEventDay + o : o \in offsets}
           earlier == {d \in days : Cardinality({e \in days : e <= d}) <= k}
       IN StoreWith(History(days,
                            [d \in days |-> IF d \in earlier THEN EarlierDay.mood ELSE mood],
                            [d \in days |-> IF d \in earlier THEN EarlierDay.stress
                                            ELSE stress]),
                    {})

NextLifeEvents ==
  \/ Tick((FirstLifeEventDay - 1 + LifeEventDays) * HoursPerDay)
  \/ DetectLifeEvents(NoFail)

SpecLifeEvents == InitLifeEvents /\ [][NextLifeEvents]_vars

\* The records of the trailing 4 weeks that a run at the hour at compares,
\* by date.
FourWeeks(u, at) ==
  LET hits == {m \in cognitiveMirror : m.userId = u /\ m.date >= DateKey(at) - 28}
  IN SortByKey(hits, [m \in hits |-> OrderKey(m.date, m.id)])

\* The mean of the second half minus the mean of the first half, as the
\* fraction num / den with den > 0.
ShiftOf(values) ==
  LET n == Len(values)
      h == n \div 2
      first == Sum([i \in 1 .. h |-> values[i]])
      second == Sum([i \in 1 .. (n - h) |-> values[h + i]])
  IN [num |-> second * h - first * (n - h), den |-> h * (n - h)]

Above(shift, k) == shift.num > k * shift.den
Below(shift, k) == shift.num < k * shift.den
Beyond(shift, k) == Above(shift, k) \/ Below(shift, -k)

MoodShiftOf(u, at) ==
  ShiftOf([i \in 1 .. Len(FourWeeks(u, at)) |-> FourWeeks(u, at)[i].moodScore])
StressShiftOf(u, at) ==
  ShiftOf([i \in 1 .. Len(FourWeeks(u, at)) |-> FourWeeks(u, at)[i].stressIndex])

LifeEventsOf(u, at) == {e \in lifeEvents : e.userId = u /\ e.timestamp = at}

\* The first category that matches, in the fixed order.
CategoryOf(moodShift, stressShift) ==
  CASE Above(moodShift, 25) /\ Below(stressShift, -15) -> "positive_life_change"
    [] ~(Above(moodShift, 25) /\ Below(stressShift, -15))
       /\ Below(moodShift, -25) /\ Above(stressShift, 15) -> "challenging_life_event"
    [] ~(Above(moodShift, 25) /\ Below(stressShift, -15))
       /\ ~(Below(moodShift, -25) /\ Above(stressShift, 15))
       /\ Beyond(stressShift, 25) -> "major_stress_shift"
    [] ~(Above(moodShift, 25) /\ Below(stressShift, -15))
       /\ ~(Below(moodShift, -25) /\ Above(stressShift, 15))
       /\ ~Beyond(stressShift, 25)
       /\ Beyond(moodShift, 30) -> "significant_mood_change"
    [] OTHER -> "unknown_transition"

\* What a run at the hour at writes for the user u whose shifts are
\* significant: one life event of the first matching category; and none for
\* a user whose shifts are not.
EventExactlyWhenShifted(u, at) ==
  IF Beyond(MoodShiftOf(u, at), 25) \/ Beyond(StressShiftOf(u, at), 20)
  THEN /\ Cardinality(LifeEventsOf(u, at)) = 1
       /\ \A e \in LifeEventsOf(u, at) :
            e.eventType = CategoryOf(MoodShiftOf(u, at), StressShiftOf(u, at))
  ELSE LifeEventsOf(u, at) = {}

\* C9 as stated: detectLifeEvents writes a life event for a user exactly
\* when |moodShift| > 25 or |stressShift| > 20, the shifts being the mean of
\* the second half minus the mean of the first half of the trailing 4 weeks,
\* with the first matching category of the fixed order as its eventType.
C9_EventExactlyWhenShifted ==
  (lastRun.job = "detectLifeEvents" /\ ~lastRun.error) =>
    \A u \in users : EventExactlyWhenShifted(u, lastRun.at)

\* C9, amended: the same for a user with at least 14 CognitiveMirror records
\* dated within the trailing 28 days; for a user with fewer, detectLifeEvents
\* writes no life event.
C9_EventExactlyWhenShiftedOverTwoWeeks ==
  (lastRun.job = "detectLifeEvents" /\ ~lastRun.error) =>
    \A u \in users :
      IF Len(FourWeeks(u, lastRun.at)) >= 14
      THEN EventExactlyWhenShifted(u, lastRun.at)
      ELSE LifeEventsOf(u, lastRun.at) = {}

\* A mood shift of 26 with a stress shift of 16 is on record as an unknown
\* transition.
C9_Witness ==
  /\ lastRun.job = "detectLifeEvents"
  /\ \E u \in users :
       /\ MoodShiftOf(u, lastRun.at).num = 26 * MoodShiftOf(u, lastRun.at).den
       /\ StressShiftOf(u, lastRun.at).num = 16 * StressShiftOf(u, lastRun.at).den
       /\ \E e \in LifeEventsOf(u, lastRun.at) : e.eventType = "unknown_transition"

\* ------------------------------------ the four aggregators (SpecAggregators)

MaxAggregatorBatches == 2

\* The days, from the first, on which raw events arrive.
AggregatorLogDays == 1

AggregatorJobs == {"aggregateDailyHealthMetrics", "aggregateDeviceSignals",
                   "aggregateShadowCognition", "aggregateObscuraPatterns"}

InitAggregators ==
  /\ now = HoursPerDay
  /\ ran = {}
  /\ scheduled = AggregatorJobs
  /\ users = Users
  /\ EmptyStore

\* Camera captures of a day: one tilted with two object tags, one straight
\* without tags.
CycleCaptures ==
  {[cameraAngle |-> "tilted", objectTags |-> 2, copies |-> 1],
   [cameraAngle |-> "straight", objectTags |-> -1, copies |-> 1]}

LogAggregatorTelemetry ==
  /\ RawCount < MaxAggregatorBatches
  /\ now < (1 + AggregatorLogDays) * HoursPerDay
  /\ \E u \in users, b \in CycleTelemetry :
       LogTelemetry(u, b.type, b.duration, b.copies)

LogAggregatorCaptures ==
  /\ RawCount < MaxAggregatorBatches
  /\ now < (1 + AggregatorLogDays) * HoursPerDay
  /\ \E u \in users, b \in CycleCaptures :
       LogCapture(u, b.cameraAngle, b.objectTags, b.copies)

NextAggregators ==
  \/ Tick(MaxHour)
  \/ LogAggregatorTelemetry
  \/ LogAggregatorCaptures
  \/ AggregateDailyHealthMetrics(NoFail)
  \/ AggregateDeviceSignals(NoFail)
  \/ AggregateShadowCognition(NoFail)
  \/ AggregateObscuraPatterns(NoFail)

SpecAggregators == InitAggregators /\ [][NextAggregators]_vars

\* The number of events of the user u that match the query of a run of job
\* at the hour at.
MatchingEvents(job, u, at) ==
  IF job = "aggregateObscuraPatterns"
  THEN Cardinality({c \in cameraCaptures :
                      /\ c.uid = u
                      /\ c.createdAt >= at - 2 * HoursPerDay
                      /\ c.createdAt < at - HoursPerDay})
  ELSE Cardinality({e \in telemetryEvents :
                      /\ e.userId = u
                      /\ e.timestamp >= at - 2 * HoursPerDay
                      /\ e.timestamp < at - HoursPerDay})

\* The numbers of records, one for every collection of job, that the run at
\* the hour at wrote for the user u.
RecordsWritten(job, u, at) ==
  CASE job = "aggregateDailyHealthMetrics" ->
         <<Cardinality({r \in rhythmMap : r.userId = u /\ r.createdAt = at}),
           Cardinality({h \in healthEcho : h.userId = u /\ h.createdAt = at})>>
    [] job = "aggregateDeviceSignals" ->
         <<Cardinality({d \in deviceSignals : d.userId = u /\ d.timestamp = at})>>
    [] job = "aggregateShadowCognition" ->
         <<Cardinality({d \in shadowCognition : d.userId = u /\ d.timestamp = at})>>
    [] job = "aggregateObscuraPatterns" ->
         <<Cardinality({d \in obscuraPatterns : d.userId = u /\ d.timestamp = at})>>

\* C11: in a run of an aggregator a user with no matching event in the
\* window gets no record and raises no error, the run goes on to the next
\* user, and a user with a matching event gets exactly one new record in
\* every collection of the aggregator.
C11_EmptyWindowIsSkipped ==
  lastRun.job \in AggregatorJobs =>
    /\ ~lastRun.error
    /\ \A u \in users :
         \A i \in DOMAIN RecordsWritten(lastRun.job, u, lastRun.at) :
           RecordsWritten(lastRun.job, u, lastRun.at)[i] =
             (IF MatchingEvents(lastRun.job, u, lastRun.at) = 0 THEN 0 ELSE 1)

\* A run of aggregateObscuraPatterns that skipped user 1, who had no capture
\* in the window, and wrote the record of user 2.
C11_Witness ==
  /\ lastRun.job = "aggregateObscuraPatterns"
  /\ MatchingEvents(lastRun.job, 1, lastRun.at) = 0
  /\ MatchingEvents(lastRun.job, 2, lastRun.at) > 0
  /\ RecordsWritten(lastRun.job, 1, lastRun.at) = <<0>>
  /\ RecordsWritten(lastRun.job, 2, lastRun.at) = <<1>>

\* --------------------------------------------- repeated runs (SpecRerun)

MaxRedeliveries == 1

RerunJobs == {"aggregateDailyHealthMetrics", "generateCognitiveMirror"}

InitRerun ==
  /\ now = HoursPerDay
  /\ ran = {}
  /\ scheduled = RerunJobs
  /\ users = Users
  /\ EmptyStore

LogRerunTelemetry ==
  /\ RawCount < MaxRawBatches
  /\ now < (1 + AggregatorLogDays) * HoursPerDay
  /\ \E u \in users, b \in CycleTelemetry :
       LogTelemetry(u, b.type, b.duration, b.copies)

RedeliverJob == \E job \in RerunJobs : Redeliver(job, MaxRedeliveries)

NextRerun ==
  \/ Tick(MaxHour)
  \/ LogRerunTelemetry
  \/ RedeliverJob
  \/ AggregateDailyHealthMetrics(NoFail)
  \/ GenerateCognitiveMirror(NoFail)

SpecRerun == InitRerun /\ [][NextRerun]_vars

\* The step is a run of aggregateDailyHealthMetrics.
IsHealthRun ==
  /\ "aggregateDailyHealthMetrics" \notin ran
  /\ "aggregateDailyHealthMetrics" \in ran'

SameMetrics(r1, r2) ==
  /\ r1.sleepHours = r2.sleepHours
  /\ r1.movementScore = r2.movementScore
  /\ r1.rhythmState = r2.rhythmState

\* C12: a second run of aggregateDailyHealthMetrics for the same user and
\* day over the same events leaves the RhythmMap record of the first run as
\* it was and adds a record for the same (userId, date) with a different id
\* and equal metric fields.
C12_SecondRunAddsSecondRecord ==
  [][IsHealthRun =>
       \A r \in rhythmMap :
         r.date = DateKey(now - HoursPerDay) =>
           /\ r \in rhythmMap'
           /\ \E r2 \in rhythmMap' \ rhythmMap :
                /\ r2.userId = r.userId
                /\ r2.date = r.date
                /\ SameMetrics(r, r2)
                /\ \A old \in rhythmMap : old.id # r2.id]_vars

\* Two RhythmMap records of user 1 for the same day, written by two runs at
\* the same hour from a window that held motion events.
C12_Witness ==
  \E r1, r2 \in rhythmMap :
    /\ r1.userId = 1 /\ r2.userId = 1
    /\ r1.date = r2.date
    /\ r1.createdAt = r2.createdAt
    /\ r1.id # r2.id
    /\ SameMetrics(r1, r2)
    /\ r1.movementScore = Whole(10)

\* C13: the cognitiveMirror collection holds at most one record per
\* (userId, date), whatever runs of generateCognitiveMirror there have been.
C13_OneMirrorPerUserAndDate ==
  \A m1, m2 \in cognitiveMirror :
    m1.userId = m2.userId /\ m1.date = m2.date => m1.id = m2.id

\* ------------------------------------------------- the callable functions

\* request.auth is absent.
NoAuth == 0

\* The payload of a call made without an argument.
NullData == [null |-> TRUE]

Has(data, field) == field \in DOMAIN data

\* The outcome of a call: the error kind the caller sees ("ok": none), the
\* store reads made, the documents written and the uuids drawn.
Reject(code, reads) == [code |-> code, reads |-> reads, docs |-> {}, ids |-> 0]
Accept(reads, docs, ids) == [code |-> "ok", reads |-> reads, docs |-> docs, ids |-> ids]

\* Destructuring a null payload throws a TypeError before the try block; the
\* platform reports an error that is not an HttpsError as internal.
Destructured(data, outcome) ==
  IF data = NullData THEN Reject("internal", 0) ELSE outcome

\* try { ... } catch (error) { throw new HttpsError("internal", ...) }: every
\* error thrown in the block, an HttpsError included, leaves as internal.
Caught(outcome) ==
  IF outcome.code = "ok" THEN outcome ELSE Reject("internal", outcome.reads)

Written(collection, id, uid, about) ==
  [collection |-> collection, id |-> id, userId |-> uid, about |-> about,
   createdAt |-> now]

GetNarratorInsight(uid, data) ==
  IF uid = NoAuth THEN Reject("unauthenticated", 0)
  ELSE Destructured(data,
         Accept(IF Has(data, "includeForecasts") /\ ~data.includeForecasts
                THEN 3 ELSE 4,
                {Written("narratorInsights", nextId, uid, <<>>)}, 1))

RecordHumorMoment(uid, data) ==
  IF uid = NoAuth THEN Reject("unauthenticated", 0)
  ELSE Destructured(data,
         IF ~Has(data, "content") \/ data.content = ""
         THEN Reject("invalid-argument", 0)
         ELSE Accept(1, {Written("humorMemory", nextId, uid, <<>>)}, 1))

GetCognitiveTimeline(uid, data) ==
  IF uid = NoAuth THEN Reject("unauthenticated", 0)
  ELSE Destructured(data,
         IF \/ ~Has(data, "startDate") \/ data.startDate = 0
            \/ ~Has(data, "endDate") \/ data.endDate = 0
         THEN Reject("invalid-argument", 0)
         ELSE Accept(IF Has(data, "includeForecasts") /\ ~data.includeForecasts
                     THEN 2 ELSE 3, {}, 0))

\* period?.startDate and period?.endDate are both set.
PeriodGiven(data, period) ==
  /\ Has(data, period)
  /\ Has(data[period], "startDate") /\ data[period].startDate # 0
  /\ Has(data[period], "endDate") /\ data[period].endDate # 0

CompareTimelinePeriods(uid, data) ==
  IF uid = NoAuth THEN Reject("unauthenticated", 0)
  ELSE Destructured(data,
         IF ~PeriodGiven(data, "period1") \/ ~PeriodGiven(data, "period2")
         THEN Reject("invalid-argument", 0)
         ELSE Accept(2, {}, 0))

\* db.collection(...).doc(eventId).get() finds a document.
VoiceEventExists(eventId) ==
  \E v \in voiceEvents : Has(v, "id") /\ v.id = eventId
DreamEventExists(eventId) == \E d \in dreamEvents : d.id = eventId
CognitiveEventExists(eventId) == \E m \in cognitiveMirror : m.id = eventId

\* The events the loop over eventIds pushed.
RECURSIVE ReplayEvents(_)
ReplayEvents(eventIds) ==
  IF eventIds = <<>> THEN <<>>
  ELSE LET eventId == Head(eventIds)
           found == IF VoiceEventExists(eventId) THEN <<[type |-> "voice", id |-> eventId]>>
                    ELSE IF DreamEventExists(eventId) THEN <<[type |-> "dream", id |-> eventId]>>
                    ELSE IF CognitiveEventExists(eventId)
                         THEN <<[type |-> "cognitive", id |-> eventId]>>
                    ELSE <<>>
       IN found \o ReplayEvents(Tail(eventIds))

GenerateTherapistReplay(uid, data) ==
  IF uid = NoAuth THEN Reject("unauthenticated", 0)
  ELSE Destructured(data,
         IF ~Has(data, "eventIds") \/ ~data.eventIds.isArray
         THEN Reject("invalid-argument", 0)
         ELSE LET events == ReplayEvents(data.eventIds.items)
                  reads == 3 * Len(data.eventIds.items)
              IN Caught(IF events = <<>> THEN Reject("not-found", reads)
                        ELSE Accept(reads,
                                    {Written("therapistReplays", nextId + Len(events),
                                             uid, [i \in DOMAIN events |-> events[i].id])},
                                    Len(events) + 1)))

CreateDreamReplay(uid, data) ==
  IF uid = NoAuth THEN Reject("unauthenticated", 0)
  ELSE Destructured(data,
         IF ~Has(data, "dreamId") \/ data.dreamId = 0
         THEN Reject("invalid-argument", 0)
         ELSE Caught(IF ~DreamEventExists(data.dreamId) THEN Reject("not-found", 1)
                     ELSE IF \E d \in dreamEvents : d.id = data.dreamId /\ d.uid # uid
                          THEN Reject("permission-denied", 1)
                     ELSE Accept(1, {Written("dreamLog", nextId, uid, <<data.dreamId>>)}, 1)))

GenerateOrbResponse(uid, data) ==
  IF uid = NoAuth THEN Reject("unauthenticated", 0)
  ELSE Destructured(data,
         IF \/ ~Has(data, "userPrompt")
            \/ ~data.userPrompt.isString
            \/ data.userPrompt.trimmedLength = 0
         THEN Reject("invalid-argument", 0)
         ELSE Accept(1, {Written("orbDialogMemory", nextId, uid, <<>>)}, 1))

\* moodScore, stressIndex and energyLevel are used as they come.
GenerateAuraOverlay(uid, data) ==
  IF uid = NoAuth THEN Reject("unauthenticated", 0)
  ELSE Destructured(data,
         Accept(0, {Written("activeOverlays", nextId, uid, <<>>)}, 1))

\* The overlay document has no field expiresAt; an emotionState that is
\* undefined is refused by set().
GenerateParticleOverlay(uid, data) ==
  IF uid = NoAuth THEN Reject("unauthenticated", 0)
  ELSE Destructured(data,
         IF ~Has(data, "emotionState") THEN Reject("internal", 0)
         ELSE Accept(0, {Written("activeOverlays", nextId, uid, <<>>)}, 1))

GetMoodWeather(uid, data) ==
  IF uid = NoAuth THEN Reject("unauthenticated", 0)
  ELSE Destructured(data,
         Accept(2, {Written("moodWeather", nextId, uid, <<>>)}, 1))

\* The partner document exists, carries the api key and is approved.
PartnerAccepted(partnerId, apiKey) ==
  \E p \in partnerAuth : p.id = partnerId /\ p.apiKey = apiKey /\ p.isApproved

CreateDarRequest(uid, data) ==
  Destructured(data,
    IF \/ ~Has(data, "partnerId") \/ data.partnerId = ""
       \/ ~Has(data, "packageId") \/ data.packageId = ""
       \/ ~Has(data, "apiKey") \/ data.apiKey = ""
    THEN Reject("invalid-argument", 0)
    ELSE IF ~PartnerAccepted(data.partnerId, data.apiKey)
         THEN Reject("unauthenticated", 1)
    ELSE IF data.packageId \notin packages THEN Reject("not-found", 2)
    ELSE Accept(2, {Written("darRequests", nextId, NoAuth, <<>>)}, 1))

\* The users whose ID token carries the custom claim admin.
Admins == {NumUsers}

\* darRef.update(...) of a document that does not exist throws NOT_FOUND,
\* which is not an HttpsError; an existing document is updated whatever its
\* status.
ApproveDarRequest(uid, data) ==
  IF uid \notin Admins THEN Reject("permission-denied", 0)
  ELSE Destructured(data,
    IF ~Has(data, "requestId") THEN Reject("invalid-argument", 0)
    ELSE IF \A d \in darRequests : d.id # data.requestId THEN Reject("internal", 0)
    ELSE Accept(0, {}, 0))

RejectDarRequest(uid, data) ==
  IF uid \notin Admins THEN Reject("permission-denied", 0)
  ELSE Destructured(data,
    IF ~Has(data, "requestId") \/ ~Has(data, "notes") \/ data.notes = ""
    THEN Reject("invalid-argument", 0)
    ELSE IF \A d \in darRequests : d.id # data.requestId THEN Reject("internal", 0)
    ELSE Accept(0, {}, 0))

\* Collection darRequests after the call: createDarRequest adds a request,
\* approveDarRequest and rejectDarRequest update the one named.
Reviewed(d, status, uid, notes) ==
  [d EXCEPT !.status = status, !.reviewerUid = uid, !.notes = notes]

DarRequestsAfter(fn, uid, data, outcome) ==
  IF outcome.code # "ok" THEN darRequests
  ELSE IF fn = "createDarRequest"
    THEN darRequests \cup
           {[id |-> w.id, partnerId |-> data.partnerId,
             packageId |-> data.packageId, status |-> "pending",
             reviewerUid |-> NoAuth, notes |-> ""] : w \in outcome.docs}
  ELSE IF fn = "approveDarRequest"
    THEN {IF d.id = data.requestId THEN Reviewed(d, "approved", uid, d.notes)
          ELSE d : d \in darRequests}
  ELSE IF fn = "rejectDarRequest"
    THEN {IF d.id = data.requestId THEN Reviewed(d, "rejected", uid, data.notes)
          ELSE d : d \in darRequests}
  ELSE darRequests

\* A document of activeOverlays: left is the time in minutes until
\* expiresAt, or for a document without that field (expires FALSE) until the
\* end of its duration.
Overlay(id, uid, type, expires, left) ==
  [id |-> id, userId |-> uid, type |-> type, expires |-> expires, left |-> left]

\* Collection activeOverlays after the call.
OverlaysAfter(fn, uid, data, outcome) ==
  IF fn = "generateAuraOverlay"
    THEN activeOverlays \cup
           {Overlay(w.id, uid, "aura_overlay", TRUE, AuraMinutes) : w \in outcome.docs}
  ELSE IF fn = "generateParticleOverlay"
    THEN activeOverlays \cup
           {Overlay(w.id, uid, "particle_overlay", FALSE, ParticleMinutes) :
              w \in outcome.docs}
  ELSE activeOverlays

\* A client calls the function fn; outcome is what the handler does.
Call(fn, uid, data, outcome) ==
  /\ callableDocs' = callableDocs \cup outcome.docs
  /\ activeOverlays' = OverlaysAfter(fn, uid, data, outcome)
  /\ darRequests' = DarRequestsAfter(fn, uid, data, outcome)
  /\ nextId' = nextId + outcome.ids
  /\ reply' = [fn |-> fn, uid |-> uid, data |-> data, code |-> outcome.code,
               reads |-> outcome.reads, wrote |-> Cardinality(outcome.docs)]
  /\ UNCHANGED <<now, ran, scheduled, users, raw, derived, pending, lastRun,
                 failures, redelivered, dreamEvents, partnerAuth, packages,
                 rhythmScores, scored, side, minute, restyled>>

\* ---------------------------------------- calls from clients (SpecCallable)

MaxCallableDocs == 2

\* The document ids of the store at the start and one id of no document.
MirrorDocId == 1
VoiceDocId == 2
DreamDocId == 3
UnknownDocId == 9

InitCallable ==
  /\ now = FirstDay * HoursPerDay
  /\ ran = {}
  /\ scheduled = {}
  /\ users = Users
  /\ telemetryEvents = {}
  /\ voiceEvents = {[uid |-> 1, createdAt |-> now - HoursPerDay,
                     sentimentScore |-> 50, copies |-> 1, id |-> VoiceDocId]}
  /\ cameraCaptures = {}
  /\ rhythmMap = {} /\ healthEcho = {} /\ deviceSignals = {}
  /\ shadowCognition = {} /\ obscuraPatterns = {}
  /\ cognitiveMirror = {PastMirror(MirrorDocId, 1, FirstDay - 1, 60, 40)}
  /\ emotionForecast = {} /\ recoveryEngine = {} /\ lifeEvents = {}
  /\ nextId = UnknownDocId + 1
  /\ pending = {}
  /\ lastRun = NoRun
  /\ failures = 0
  /\ redelivered = 0
  /\ dreamEvents = {[id |-> DreamDocId, uid |-> 1]}
  /\ partnerAuth = {[id |-> "partner1", apiKey |-> "key1", isApproved |-> TRUE],
                    [id |-> "partner2", apiKey |-> "key2", isApproved |-> FALSE]}
  /\ packages = {"package1"}
  /\ callableDocs = {}
  /\ reply = NoReply
  /\ darRequests = {}
  /\ activeOverlays = {}
  /\ minute = 0
  /\ restyled = {}
  /\ rhythmScores = {}
  /\ scored = {}
  /\ NoSide

Callers == {NoAuth} \cup Users

EventIdLists == {<<>>, <<UnknownDocId>>, <<UnknownDocId, DreamDocId>>,
                 <<VoiceDocId, MirrorDocId>>}

\* The ids of the requests in the store and one id of no document.
RequestIds == {d.id : d \in darRequests} \cup {UnknownDocId}

\* The payloads clients send, function by function.
Payloads(fn) ==
  {NullData} \cup
  CASE fn = "getNarratorInsight" -> {[includeForecasts |-> b] : b \in BOOLEAN}
    [] fn = "recordHumorMoment" ->
         {[context |-> "walk"], [content |-> ""], [content |-> "joke"]}
    [] fn = "getCognitiveTimeline" ->
         {[startDate |-> FirstDay - 1], [startDate |-> FirstDay - 1, endDate |-> 0],
          [startDate |-> FirstDay - 1, endDate |-> FirstDay]}
    [] fn = "compareTimelinePeriods" ->
         {[period1 |-> [startDate |-> 1, endDate |-> 2]],
          [period1 |-> [startDate |-> 1, endDate |-> 2],
           period2 |-> [startDate |-> 3]],
          [period1 |-> [startDate |-> 1, endDate |-> 2],
           period2 |-> [startDate |-> 3, endDate |-> 4]]}
    [] fn = "generateTherapistReplay" ->
         {[replayTheme |-> "growth"],
          [eventIds |-> [isArray |-> FALSE, items |-> <<>>]]}
         \cup {[eventIds |-> [isArray |-> TRUE, items |-> ids]] : ids \in EventIdLists}
    [] fn = "createDreamReplay" ->
         {[replayStyle |-> "symbolic"]}
         \cup {[dreamId |-> id] : id \in {0, DreamDocId, UnknownDocId}}
    [] fn = "generateOrbResponse" ->
         {[conversationContext |-> "morning"]}
         \cup {[userPrompt |-> [isString |-> str, trimmedLength |-> n]] :
                 str \in BOOLEAN, n \in {0, 5}}
    [] fn = "generateAuraOverlay" ->
         {[customColor |-> "red"],
          [moodScore |-> 80, stressIndex |-> 20, energyLevel |-> 70]}
    [] fn = "generateParticleOverlay" ->
         {[particleType |-> "floating"], [emotionState |-> "joy"],
          [emotionState |-> "calm", intensity |-> 100]}
    [] fn = "getMoodWeather" -> {[includeSeasonalTheme |-> b] : b \in BOOLEAN}
    [] fn = "createDarRequest" ->
         {[partnerId |-> "partner1", apiKey |-> "key1"]}
         \cup {[partnerId |-> p, apiKey |-> k, packageId |-> g] :
                 p \in {"partner1", "partner2"}, k \in {"key1", "key2"},
                 g \in {"package1", "package7"}}
    [] fn = "approveDarRequest" ->
         {[notes |-> "late"]}
         \cup {[requestId |-> id] : id \in RequestIds}
    [] fn = "rejectDarRequest" ->
         {[requestId |-> id] : id \in RequestIds}
         \cup {[requestId |-> id, notes |-> n] :
                 id \in RequestIds, n \in {"", "no consent"}}

Handler(fn, uid, data) ==
  CASE fn = "getNarratorInsight" -> GetNarratorInsight(uid, data)
    [] fn = "recordHumorMoment" -> RecordHumorMoment(uid, data)
    [] fn = "getCognitiveTimeline" -> GetCognitiveTimeline(uid, data)
    [] fn = "compareTimelinePeriods" -> CompareTimelinePeriods(uid, data)
    [] fn = "generateTherapistReplay" -> GenerateTherapistReplay(uid, data)
    [] fn = "createDreamReplay" -> CreateDreamReplay(uid, data)
    [] fn = "generateOrbResponse" -> GenerateOrbResponse(uid, data)
    [] fn = "generateAuraOverlay" -> GenerateAuraOverlay(uid, data)
    [] fn = "generateParticleOverlay" -> GenerateParticleOverlay(uid, data)
    [] fn = "getMoodWeather" -> GetMoodWeather(uid, data)
    [] fn = "createDarRequest" -> CreateDarRequest(uid, data)
    [] fn = "approveDarRequest" -> ApproveDarRequest(uid, data)
    [] fn = "rejectDarRequest" -> RejectDarRequest(uid, data)

ClientCall(fn) ==
  /\ Cardinality(callableDocs) < MaxCallableDocs
  /\ \E uid \in Callers, data \in Payloads(fn) :
       Call(fn, uid, data, Handler(fn, uid, data))

NextCallable ==
  \/ ClientCall("getNarratorInsight")
  \/ ClientCall("recordHumorMoment")
  \/ ClientCall("getCognitiveTimeline")
  \/ ClientCall("compareTimelinePeriods")
  \/ ClientCall("generateTherapistReplay")
  \/ ClientCall("createDreamReplay")
  \/ ClientCall("generateOrbResponse")
  \/ ClientCall("generateAuraOverlay")
  \/ ClientCall("getMoodWeather")
  \/ ClientCall("createDarRequest")

SpecCallable == InitCallable /\ [][NextCallable]_vars

\* The last call named no event that exists in voiceEvents, dreamEvents or
\* cognitiveMirror.
NoEventExists ==
  /\ Has(reply.data, "eventIds")
  /\ reply.data.eventIds.isArray
  /\ \A i \in DOMAIN reply.data.eventIds.items :
       LET eventId == reply.data.eventIds.items[i]
       IN /\ \A v \in voiceEvents : Has(v, "id") => v.id # eventId
          /\ \A d \in dreamEvents : d.id # eventId
          /\ \A m \in cognitiveMirror : m.id # eventId

\* C14: a call that refers to an entity that does not exist is rejected with
\* not-found: generateTherapistReplay when none of the eventIds exists,
\* createDreamReplay when the dream does not exist, createDarRequest when the
\* package does not exist.
C14_MissingEntityIsNotFound ==
  /\ reply.fn = "generateTherapistReplay" /\ reply.uid # NoAuth /\ NoEventExists
       => reply.code = "not-found"
  /\ (/\ reply.fn = "createDreamReplay" /\ reply.uid # NoAuth
      /\ Has(reply.data, "dreamId") /\ reply.data.dreamId # 0
      /\ \A d \in dreamEvents : d.id # reply.data.dreamId)
       => reply.code = "not-found"
  /\ (/\ reply.fn = "createDarRequest"
      /\ Has(reply.data, "packageId") /\ Has(reply.data, "partnerId")
      /\ \E p \in partnerAuth :
           p.id = reply.data.partnerId /\ p.apiKey = reply.data.apiKey /\ p.isApproved
      /\ reply.data.packageId \notin packages)
       => reply.code = "not-found"

UserFacing == {"getNarratorInsight", "recordHumorMoment", "getCognitiveTimeline",
               "compareTimelinePeriods", "generateTherapistReplay",
               "createDreamReplay", "generateOrbResponse", "generateAuraOverlay",
               "getMoodWeather"}

\* The fields a call of fn cannot do without.
RequiredFields(fn) ==
  CASE fn = "recordHumorMoment" -> {"content"}
    [] fn = "getCognitiveTimeline" -> {"startDate", "endDate"}
    [] fn = "compareTimelinePeriods" -> {"period1", "period2"}
    [] fn = "generateTherapistReplay" -> {"eventIds"}
    [] fn = "createDreamReplay" -> {"dreamId"}
    [] fn = "generateOrbResponse" -> {"userPrompt"}
    [] fn = "generateAuraOverlay" -> {"moodScore", "stressIndex", "energyLevel"}
    [] OTHER -> {}

\* C15: a user-facing callable function rejects a call without caller
\* identity with unauthenticated and a call that lacks a required field with
\* invalid-argument, in both cases before any store read or write.
C15_RejectedBeforeStoreAccess ==
  reply.fn \in UserFacing =>
    /\ reply.uid = NoAuth =>
         reply.code = "unauthenticated" /\ reply.reads = 0 /\ reply.wrote = 0
    /\ (/\ reply.uid # NoAuth
        /\ \E field \in RequiredFields(reply.fn) : ~Has(reply.data, field))
         => reply.code = "invalid-argument" /\ reply.reads = 0 /\ reply.wrote = 0

\* --------------------------------------------------- generateRhythmScore

\* The composite score before rounding; echoDocs is the healthEcho snapshot
\* for the user and the date of the RhythmMap.
CompositeScore(rhythmData, echoDocs) ==
  LET sleepScore == FMin(Whole(100), Frac(rhythmData.sleepHours * 25, 2))
      bySleep == FAdd(Whole(50), FMul(FSub(sleepScore, Whole(50)), Frac(4, 10)))
      byMovement == FAdd(bySleep, FMul(FSub(rhythmData.movementScore, Whole(50)),
                                       Frac(3, 10)))
      byWellness == IF echoDocs = <<>> THEN byMovement
                    ELSE FAdd(byMovement,
                              FMul(FSub(echoDocs[1].wellnessIndex, Whole(50)),
                                   Frac(3, 10)))
  IN FMax(Whole(0), FMin(Whole(100), byWellness))

\* Classification with Stable from the score 75 on.
Classification_StableAt75(rhythmData, score) ==
  IF FLe(Whole(75), score) THEN "Stable"
  ELSE IF FLt(score, Whole(40)) THEN "Off-Rhythm"
  ELSE IF FLt(Whole(80), rhythmData.movementScore) /\ rhythmData.sleepHours < 7
       THEN "Overstimulated"
  ELSE rhythmData.rhythmState

Classification(rhythmData, score) ==
  IF FLt(Whole(75), score) THEN "Stable"
  ELSE IF FLt(score, Whole(40)) THEN "Off-Rhythm"
  ELSE IF FLt(Whole(80), rhythmData.movementScore) /\ rhythmData.sleepHours < 7
       THEN "Overstimulated"
  ELSE rhythmData.rhythmState

StabilityTrend(score) ==
  IF FLt(Whole(60), score) THEN "improving"
  ELSE IF FLt(score, Whole(40)) THEN "declining" ELSE "stable"

\* The trigger on rhythmMap/{rhythmMapId} for the created document.
GenerateRhythmScore(rhythmMapId) ==
  LET rhythmData == CHOOSE r \in rhythmMap : r.id = rhythmMapId
      echoDocs == ByUserAndDate(healthEcho, rhythmData.userId, rhythmData.date)
      score == CompositeScore(rhythmData, echoDocs)
      rhythmScore ==
        [id |-> nextId, userId |-> rhythmData.userId, date |-> rhythmData.date,
         classification |-> Classification(rhythmData, score),
         score |-> FRound(score), timestamp |-> now,
         rhythmFactors |->
           [sleep |-> FMin(Whole(100), Frac(rhythmData.sleepHours * 25, 2)),
            movement |-> rhythmData.movementScore, consistency |-> 50],
         stabilityTrend |-> StabilityTrend(score)]
  IN /\ "generateRhythmScore" \in scheduled
     /\ \E r \in rhythmMap : r.id = rhythmMapId
     /\ rhythmMapId \notin scored
     /\ scored' = scored \cup {rhythmMapId}
     /\ rhythmScores' = rhythmScores \cup {rhythmScore}
     /\ nextId' = nextId + 1
     /\ UNCHANGED <<now, ran, scheduled, users, raw, derived, pending, lastRun,
                    failures, redelivered, callable, side, overlays>>

\* --------------------------------------- the rhythm score (SpecRhythmScore)

SleepInputs == {4, 5, 6, 7, 8, 10}
MovementInputs == {Whole(m) : m \in {0, 20, 50, 81, 85, 100}}
MotionEventInputs == {1, 101}

\* The RhythmMap of a day with the sleep, movement and motion events given,
\* and the HealthEcho written with it.
RhythmMapOf(sleepHours, movementScore, motionEvents) ==
  [id |-> 1, userId |-> 1, date |-> FirstDay,
   sleepHours |-> sleepHours, movementScore |-> movementScore,
   rhythmState |-> RhythmState(sleepHours, movementScore, motionEvents),
   createdAt |-> (FirstDay + 1) * HoursPerDay + HealthHour]

HealthEchoOf(sleepHours, movementScore, motionEvents) ==
  [id |-> 2, userId |-> 1, date |-> FirstDay,
   movementScore |-> movementScore,
   wellnessIndex |-> FDivInt(FAdd(movementScore, Frac(sleepHours * 25, 2)), 2),
   createdAt |-> (FirstDay + 1) * HoursPerDay + HealthHour,
   stepsCount |-> motionEvents * 100,
   activeMinutes |-> movementScore,
   stressIndex |->
     HealthEchoStress(RhythmState(sleepHours, movementScore, motionEvents))]

\* A RhythmMap has been created; its HealthEcho is in the store or not yet.
InitRhythmScore ==
  /\ now = (FirstDay + 1) * HoursPerDay + HealthHour
  /\ ran = {}
  /\ scheduled = {"generateRhythmScore"}
  /\ users = {1}
  /\ \E sleepHours \in SleepInputs, movementScore \in MovementInputs,
        motionEvents \in MotionEventInputs :
       /\ rhythmMap = {RhythmMapOf(sleepHours, movementScore, motionEvents)}
       /\ healthEcho \in {{}, {HealthEchoOf(sleepHours, movementScore, motionEvents)}}
  /\ telemetryEvents = {} /\ voiceEvents = {} /\ cameraCaptures = {}
  /\ deviceSignals = {} /\ shadowCognition = {} /\ obscuraPatterns = {}
  /\ cognitiveMirror = {} /\ emotionForecast = {} /\ recoveryEngine = {}
  /\ lifeEvents = {}
  /\ nextId = 3
  /\ pending = {}
  /\ lastRun = NoRun
  /\ failures = 0
  /\ redelivered = 0
  /\ NoCalls
  /\ rhythmScores = {}
  /\ scored = {}
  /\ NoSide

RhythmMapCreated == \E r \in rhythmMap : GenerateRhythmScore(r.id)

NextRhythmScore == RhythmMapCreated

SpecRhythmScore == InitRhythmScore /\ [][NextRhythmScore]_vars

\* The RhythmMap a rhythm score was computed from.
RhythmMapOfScore(s) ==
  CHOOSE r \in rhythmMap : r.userId = s.userId /\ r.date = s.date

\* 50 + 0.4 * (min(100, 12.5 * sleepHours) - 50) + 0.3 * (movementScore - 50)
\* + 0.3 * (wellnessIndex - 50), the last term 0 without a HealthEcho,
\* clamped to [0, 100].
CompositeOf(s) ==
  LET r == RhythmMapOfScore(s)
      echo == {h \in healthEcho : h.userId = s.userId /\ h.date = s.date}
      sleepTerm == FMul(Frac(4, 10),
                        FSub(FMin(Whole(100), Frac(125 * r.sleepHours, 10)), Whole(50)))
      movementTerm == FMul(Frac(3, 10), FSub(r.movementScore, Whole(50)))
      wellnessTerm == IF echo = {} THEN Whole(0)
                      ELSE FMul(Frac(3, 10),
                                FSub((CHOOSE h \in echo : TRUE).wellnessIndex, Whole(50)))
      sum == FAdd(FAdd(Whole(50), sleepTerm), FAdd(movementTerm, wellnessTerm))
  IN IF FLt(sum, Whole(0)) THEN Whole(0)
     ELSE IF FLt(Whole(100), sum) THEN Whole(100) ELSE sum

\* C16 as stated: the classification is Stable when the composite score is
\* above 75, Off-Rhythm when it is below 40, and the raw rhythmState of the
\* RhythmMap otherwise.
C16_ClassificationByScore ==
  \A s \in rhythmScores :
    /\ s.score = FRound(CompositeOf(s))
    /\ s.classification =
         IF FLt(Whole(75), CompositeOf(s)) THEN "Stable"
         ELSE IF FLt(CompositeOf(s), Whole(40)) THEN "Off-Rhythm"
         ELSE RhythmMapOfScore(s).rhythmState

\* C16, amended: between the two thresholds the classification is
\* Overstimulated when movementScore > 80 and sleepHours < 7, and the raw
\* rhythmState only otherwise.
C16_ClassificationByScoreOrOverstimulation ==
  \A s \in rhythmScores :
    /\ s.score = FRound(CompositeOf(s))
    /\ s.classification =
         IF FLt(Whole(75), CompositeOf(s)) THEN "Stable"
         ELSE IF FLt(CompositeOf(s), Whole(40)) THEN "Off-Rhythm"
         ELSE IF /\ FLt(Whole(80), RhythmMapOfScore(s).movementScore)
                 /\ RhythmMapOfScore(s).sleepHours < 7
              THEN "Overstimulated"
         ELSE RhythmMapOfScore(s).rhythmState

\* A score of exactly 75, computed without a HealthEcho from 6 hours of sleep
\* and the movement score 100, classified Overstimulated over the raw Stable.
C16_Witness ==
  \E s \in rhythmScores :
    /\ s.score = 75
    /\ healthEcho = {}
    /\ RhythmMapOfScore(s).rhythmState = "Stable"
    /\ s.classification = "Overstimulated"

\* -------- the health aggregator step by step, with the rhythm score trigger
\* -------- (SpecHealthScore)

\* The aggregator awaits every store call, so the triggers of the documents
\* it has written can run before its next call. An invocation in progress is
\* at the user Head(todo); echo holds the HealthEcho it has built and not
\* yet written.
HealthRunning == healthRun.at # -1

\* The scheduler invokes aggregateDailyHealthMetrics: yesterday and dateKey
\* are computed and the users snapshot is read.
HealthStart ==
  /\ Due("aggregateDailyHealthMetrics")
  /\ ~HealthRunning
  /\ healthRun' = [at |-> now, todo |-> UsersSnapshot, echo |-> {}, done |-> <<>>]
  /\ ran' = ran \cup {"aggregateDailyHealthMetrics"}
  /\ UNCHANGED <<now, scheduled, users, raw, derived, nextId, pending, lastRun,
                 failures, redelivered, callable, rhythmScores, scored,
                 others, overlays>>

\* The telemetry of the user is read; a user without telemetry is skipped,
\* for any other the RhythmMap is written.
HealthWriteRhythmMap ==
  /\ HealthRunning
  /\ healthRun.echo = {}
  /\ healthRun.todo # <<>>
  /\ LET acc == HealthUser([a |-> {}, b |-> {}, id |-> nextId, done |-> <<>>,
                            failedUser |-> -1],
                           Head(healthRun.todo), NoFail, healthRun.at)
     IN /\ rhythmMap' = rhythmMap \cup {[r EXCEPT !.createdAt = now] : r \in acc.a}
        /\ nextId' = acc.id
        /\ healthRun' = IF acc.a = {} THEN [healthRun EXCEPT !.todo = Tail(@)]
                        ELSE [healthRun EXCEPT !.echo = acc.b]
  /\ UNCHANGED <<now, ran, scheduled, users, raw, healthEcho, deviceSignals,
                 shadowCognition, obscuraPatterns, cognitiveMirror,
                 emotionForecast, recoveryEngine, lifeEvents, pending, lastRun,
                 failures, redelivered, callable, rhythmScores, scored,
                 others, overlays>>

\* The HealthEcho of the user is written and the loop moves on.
HealthWriteHealthEcho ==
  /\ healthRun.echo # {}
  /\ healthEcho' = healthEcho \cup {[e EXCEPT !.createdAt = now] : e \in healthRun.echo}
  /\ healthRun' = [healthRun EXCEPT !.echo = {}, !.todo = Tail(@),
                                    !.done = Append(@, Head(healthRun.todo))]
  /\ UNCHANGED <<now, ran, scheduled, users, raw, rhythmMap, deviceSignals,
                 shadowCognition, obscuraPatterns, cognitiveMirror,
                 emotionForecast, recoveryEngine, lifeEvents, nextId, pending,
                 lastRun, failures, redelivered, callable, rhythmScores, scored,
                 others, overlays>>

\* The loop is over: the invocation returns; lastRun keeps the users it
\* logged as aggregated.
HealthFinish ==
  /\ HealthRunning
  /\ healthRun.echo = {}
  /\ healthRun.todo = <<>>
  /\ lastRun' = [job |-> "aggregateDailyHealthMetrics", at |-> healthRun.at,
                 done |-> healthRun.done, error |-> FALSE, failedUser |-> -1]
  /\ healthRun' = NoHealthRun
  /\ UNCHANGED <<now, ran, scheduled, users, raw, derived, nextId, pending,
                 failures, redelivered, callable, rhythmScores, scored,
                 others, overlays>>

InitHealthScore ==
  /\ now = HoursPerDay
  /\ ran = {}
  /\ scheduled = {"aggregateDailyHealthMetrics", "generateRhythmScore"}
  /\ users = {1}
  /\ EmptyStore

\* Motion of a day: no movement at all, a short walk, a walk that gives the
\* score 81, and 101 motion events of one minute.
ScoreTelemetry ==
  {[duration |-> 0, copies |-> 1],
   [duration |-> 600, copies |-> 1],
   [duration |-> 4860, copies |-> 1],
   [duration |-> 60, copies |-> 101]}

LogScoreMotion ==
  /\ RawCount < MaxScoreBatches
  /\ \E u \in users, b \in ScoreTelemetry :
       LogTelemetry(u, "motion_event", b.duration, b.copies)

NextHealthScore ==
  \/ Tick(ScoreDays * HoursPerDay + HealthHour)
  \/ LogScoreMotion
  \/ HealthStart
  \/ HealthWriteRhythmMap
  \/ HealthWriteHealthEcho
  \/ HealthFinish
  \/ RhythmMapCreated

SpecHealthScore == InitHealthScore /\ [][NextHealthScore]_vars

\* The HealthEcho documents of the user and date of a RhythmMap.
EchoesOf(r) == ByUserAndDate(healthEcho, r.userId, r.date)

\* C24 as stated: whenever the trigger ran, the score of a RhythmMap whose
\* HealthEcho the aggregator has written includes the wellness term of that
\* HealthEcho.
C24_ScoreIncludesWellness ==
  \A s \in rhythmScores :
    LET r == RhythmMapOfScore(s)
    IN EchoesOf(r) # <<>> => s.score = FRound(CompositeScore(r, EchoesOf(r)))

\* C27: with the default 8 hours of sleep no rhythm score is classified
\* Overstimulated, every composite score, with or without the HealthEcho, is
\* at least 55, and a RhythmMap whose raw state is Overstimulated scores
\* above 75 and is classified Stable.
C27_DefaultSleepNeverOverstimulated ==
  /\ \A r \in rhythmMap :
       \A echoDocs \in {<<>>, EchoesOf(r)} :
         /\ FLe(Whole(55), CompositeScore(r, echoDocs))
         /\ r.rhythmState = "Overstimulated" =>
              FLt(Whole(75), CompositeScore(r, echoDocs))
  /\ \A s \in rhythmScores :
       /\ s.classification # "Overstimulated"
       /\ s.score >= 55
       /\ RhythmMapOfScore(s).rhythmState = "Overstimulated" =>
            s.classification = "Stable" /\ s.score > 75

\* A day of 101 minutes of movement in 101 events: the raw state is
\* Overstimulated, the trigger ran before the HealthEcho was written, and
\* the score is Stable.
C27_Witness ==
  \E s \in rhythmScores :
    /\ RhythmMapOfScore(s).rhythmState = "Overstimulated"
    /\ EchoesOf(RhythmMapOfScore(s)) = <<>>
    /\ s.classification = "Stable"

\* ------------- the forecast after a repeated mirror run (SpecRerunForecast)

\* Stored histories, as days before the first day: 4, 5 and 6 days in a row
\* up to the day before the one the first mirror run records.
RerunHistoryOffsets == {(-5) .. (-2), (-6) .. (-2), (-7) .. (-2)}

InitRerunForecast ==
  /\ now = FirstDay * HoursPerDay
  /\ ran = {}
  /\ scheduled = {"generateCognitiveMirror", "generateEmotionForecast"}
  /\ users = {1}
  /\ \E offsets \in RerunHistoryOffsets, stress \in ForecastStress :
       LET days == {FirstDay + o : o \in offsets}
       IN StoreWith(History(days, [d \in days |-> 50], [d \in days |-> stress]), {})

RedeliverMirror == Redeliver("generateCognitiveMirror", MaxRedeliveries)

NextRerunForecast ==
  \/ Tick((FirstDay + RerunForecastDays) * HoursPerDay)
  \/ LogForecastVoice
  \/ RedeliverMirror
  \/ GenerateCognitiveMirror(NoFail)
  \/ GenerateEmotionForecast(NoFail)

SpecRerunForecast == InitRerunForecast /\ [][NextRerunForecast]_vars

\* The 7 records whose stress and mood the forecast e was computed from.
RecentWeekOf(e) ==
  LET hits == RecordsWithin30Days(e.userId, e.timestamp)
  IN Take(Reverse(SortByKey(hits, [m \in hits |-> OrderKey(m.date, m.id)])), 7)

\* C25: every EmotionForecast was written for a user with CognitiveMirror
\* records of at least 7 distinct dates within the trailing 30 days, and the
\* 7 records behind avgRecentStress and the trend slope have 7 distinct
\* dates.
C25_SevenDistinctDates ==
  \A e \in emotionForecast :
    /\ Cardinality({m.date : m \in RecordsWithin30Days(e.userId, e.timestamp)}) >= 7
    /\ Cardinality({RecentWeekOf(e)[i].date : i \in DOMAIN RecentWeekOf(e)}) = 7

\* ----------------------------------- the data access requests (SpecDar)

\* An admin reviews a request: a call of approveDarRequest or
\* rejectDarRequest.
ReviewCall(fn) ==
  \E uid \in Callers, data \in Payloads(fn) :
    Call(fn, uid, data, Handler(fn, uid, data))

NextDar ==
  \/ ClientCall("createDarRequest")
  \/ ReviewCall("approveDarRequest")
  \/ ReviewCall("rejectDarRequest")

SpecDar == InitCallable /\ [][NextDar]_vars

\* C29 as stated: a request enters the collection with status pending; a
\* step changes the status of a request only if it is a call of
\* approveDarRequest or rejectDarRequest by an admin; and no step changes
\* the status of a request that is approved or rejected.
C29_ReviewIsFinal ==
  [][/\ \A e \in darRequests' :
          (\A d \in darRequests : d.id # e.id) => e.status = "pending"
     /\ \A d \in darRequests :
          \E e \in darRequests' :
            /\ e.id = d.id
            /\ e.status # d.status =>
                 /\ reply'.fn \in {"approveDarRequest", "rejectDarRequest"}
                 /\ reply'.uid \in Admins
                 /\ d.status = "pending"]_vars

\* ------------------------------------------------ processNotificationQueue

\* Everything but the state of the handlers outside the daily cycle.
base == <<now, ran, scheduled, users, raw, derived, nextId, pending, lastRun,
          failures, redelivered, callable, rhythmScores, scored, healthRun,
          overlays>>

\* What the handlers of one engine leave alone.
besidesNotify == <<base, profiles, shifts>>
besidesVoice == <<base, notify, shifts>>
besidesInsight == <<base, notify, profiles>>

\* A message without uid has the uid NoUid.
NoUid == 0

\* The error codes of sendToDevice after which the token is removed.
InvalidToken_AnyError(result) == result # "ok"

InvalidToken(result) ==
  result \in {"messaging/invalid-registration-token",
              "messaging/registration-token-not-registered"}

\* What an invocation did: the outcome, the tokens the push went to with
\* the result for each, the fcmTokens documents deleted, the documents
\* added, and whether the message was deleted from the queue.
NotifyStep(m, outcome, pushed, results, stale, docs, deleted) ==
  [messageId |-> m.id, uid |-> m.uid, type |-> m.type, outcome |-> outcome,
   pushed |-> {[token |-> k, result |-> results[k]] : k \in pushed},
   stale |-> stale, docs |-> docs, deleted |-> deleted]

\* A catch block that deletes the message.
NotifyThrew_Deletes(m, pushed, results, stale, docs) ==
  NotifyStep(m, "threw", pushed, results, stale, docs, TRUE)

\* catch (error) { logger.error(...); return; }: the message stays.
NotifyThrew(m, pushed, results, stale, docs) ==
  NotifyStep(m, "threw", pushed, results, stale, docs, FALSE)

\* return snap.ref.delete(): a delete that throws leaves the message.
NotifyDelete(m, outcome, pushed, results, stale, docs, f) ==
  IF f = "delete" THEN NotifyStep(m, "threw", pushed, results, stale, docs, FALSE)
  ELSE NotifyStep(m, outcome, pushed, results, stale, docs, TRUE)

\* The handler for the message m; results is what the sender reports token
\* by token, f the call that throws (none: no call throws). A fault the
\* invocation does not reach gives the outcome unreached.
Notify(m, results, f) ==
  LET uid == m.uid
      tokens == {t.token : t \in {d \in fcmTokens :
                                    d.uid = uid /\ d.active /\ d.token # ""}}
      invalid == {k \in tokens : InvalidToken(results[k])}
      stale == {d \in fcmTokens : d.uid = uid /\ d.token \in invalid}
      note == [collection |-> "notifications", id |-> m.id, uid |-> uid,
               type |-> m.type]
      narration == [collection |-> "orbEvents", id |-> m.id, uid |-> uid,
                    type |-> "narration_request"]
      narrate == m.priority = "high" /\ prefs[uid].orbNarration
      docs == IF narrate THEN {note, narration} ELSE {note}
      Threw(pushed, gone, added) == NotifyThrew(m, pushed, results, gone, added)
  IN IF uid = NoUid \/ m.body = ""
       THEN IF f = "none" THEN NotifyStep(m, "malformed", {}, results, {}, {}, FALSE)
            ELSE NotifyStep(m, "unreached", {}, results, {}, {}, FALSE)
     ELSE IF f = "userGet" THEN Threw({}, {}, {})
     ELSE IF uid \notin users
       THEN IF f \in {"none", "delete"}
            THEN NotifyDelete(m, "no_user", {}, results, {}, {}, f)
            ELSE NotifyStep(m, "unreached", {}, results, {}, {}, FALSE)
     ELSE IF ~prefs[uid].enabled \/ m.type \in prefs[uid].muted
       THEN IF f \in {"none", "delete"}
            THEN NotifyDelete(m, "disabled", {}, results, {}, {}, f)
            ELSE NotifyStep(m, "unreached", {}, results, {}, {}, FALSE)
     ELSE IF f = "tokensGet" THEN Threw({}, {}, {})
     ELSE IF f = "send"
       THEN IF tokens # {} THEN Threw({}, {}, {})
            ELSE NotifyStep(m, "unreached", {}, results, {}, {}, FALSE)
     ELSE IF f \in {"tokenQuery", "commit"}
       THEN IF invalid # {} THEN Threw(tokens, {}, {})
            ELSE NotifyStep(m, "unreached", {}, results, {}, {}, FALSE)
     ELSE IF f = "add" THEN Threw(tokens, stale, {})
     ELSE IF f = "orbAdd"
       THEN IF narrate THEN Threw(tokens, stale, {note})
            ELSE NotifyStep(m, "unreached", {}, results, {}, {}, FALSE)
     ELSE NotifyDelete(m, "delivered", tokens, results, stale, docs, f)

\* The trigger on messages/queue/{messageId} runs once for the created
\* document.
ProcessNotificationQueue(m, results, f) ==
  LET step == Notify(m, results, f)
  IN /\ "processNotificationQueue" \in scheduled
     /\ m \in queue
     /\ \A d \in delivery : d.messageId # m.id
     /\ step.outcome # "unreached"
     /\ delivery' = delivery \cup {step}
     /\ fcmTokens' = fcmTokens \ step.stale
     /\ inbox' = inbox \cup step.docs
     /\ queue' = IF step.deleted THEN queue \ {m} ELSE queue
     /\ UNCHANGED <<besidesNotify, prefs>>

\* ------------------------------------- the notification queue (SpecNotify)

MaxMessages == 2

TokenStrings == {"a", "b"}
SendResults == {"ok", "messaging/invalid-registration-token",
                "messaging/registration-token-not-registered",
                "messaging/internal-error"}
NotifyFaults == {"none", "userGet", "tokensGet", "send", "tokenQuery", "commit",
                 "add", "orbAdd", "delete"}

\* The fcmTokens documents at the start: none, one or two active tokens of
\* user 1, with an inactive document of the same token, and a document of
\* user 2 with a token of user 1.
TokenDoc(id, uid, token, active) ==
  [id |-> id, uid |-> uid, token |-> token, active |-> active]

TokenStores ==
  {{},
   {TokenDoc(1, 1, "a", TRUE)},
   {TokenDoc(1, 1, "a", TRUE), TokenDoc(2, 1, "b", TRUE)},
   {TokenDoc(1, 1, "a", TRUE), TokenDoc(2, 1, "b", FALSE),
    TokenDoc(3, NumUsers, "a", TRUE)},
   {TokenDoc(1, 1, "a", TRUE), TokenDoc(2, 1, "a", FALSE),
    TokenDoc(3, 1, "", TRUE)}}

DefaultPrefs == [enabled |-> TRUE, muted |-> {}, orbNarration |-> TRUE]

\* The preferences of user 1: the defaults, everything disabled, the type
\* insight disabled, no narration.
PrefsOfUser ==
  {DefaultPrefs,
   [DefaultPrefs EXCEPT !.enabled = FALSE],
   [DefaultPrefs EXCEPT !.muted = {"insight"}],
   [DefaultPrefs EXCEPT !.orbNarration = FALSE]}

\* The messages producers write: without uid, without body, for a user that
\* does not exist, and for user 1 of either type and priority.
Message(uid, body, type, priority) ==
  [uid |-> uid, body |-> body, type |-> type, priority |-> priority]

Messages ==
  {Message(NoUid, "text", "insight", "normal"),
   Message(1, "", "insight", "normal"),
   Message(NumUsers + 1, "text", "insight", "normal")}
  \cup {Message(1, "text", type, priority) :
          type \in {"insight", "achievement"}, priority \in {"high", "normal"}}

InitNotify ==
  /\ now = FirstDay * HoursPerDay
  /\ ran = {}
  /\ scheduled = {"processNotificationQueue"}
  /\ users = Users
  /\ telemetryEvents = {} /\ voiceEvents = {} /\ cameraCaptures = {}
  /\ rhythmMap = {} /\ healthEcho = {} /\ deviceSignals = {}
  /\ shadowCognition = {} /\ obscuraPatterns = {} /\ cognitiveMirror = {}
  /\ emotionForecast = {} /\ recoveryEngine = {} /\ lifeEvents = {}
  /\ nextId = 1
  /\ pending = {}
  /\ lastRun = NoRun
  /\ failures = 0
  /\ redelivered = 0
  /\ NoCalls
  /\ rhythmScores = {}
  /\ scored = {}
  /\ healthRun = NoHealthRun
  /\ queue = {}
  /\ \E p \in PrefsOfUser :
       prefs = [u \in users |-> IF u = 1 THEN p ELSE DefaultPrefs]
  /\ fcmTokens \in TokenStores
  /\ inbox = {}
  /\ delivery = {}
  /\ NoVoice
  /\ NoInsight

\* A producer adds a message to the queue.
EnqueueMessage ==
  /\ Cardinality({d.messageId : d \in delivery} \cup {m.id : m \in queue})
       < MaxMessages
  /\ \E m \in Messages :
       queue' = queue \cup
         {[id |-> Cardinality({d.messageId : d \in delivery}
                              \cup {q.id : q \in queue}) + 1,
           uid |-> m.uid, body |-> m.body, type |-> m.type,
           priority |-> m.priority]}
  /\ UNCHANGED <<besidesNotify, prefs, fcmTokens, inbox, delivery>>

MessageCreated ==
  \E m \in queue, results \in [TokenStrings -> SendResults] :
    ProcessNotificationQueue(m, results, "none")

MessageCreatedWithFault ==
  \E m \in queue, results \in [TokenStrings -> SendResults], f \in NotifyFaults :
    ProcessNotificationQueue(m, results, f)

NextNotify ==
  \/ EnqueueMessage
  \/ MessageCreated

SpecNotify == InitNotify /\ [][NextNotify]_vars

NextNotifyFaults ==
  \/ EnqueueMessage
  \/ MessageCreatedWithFault

SpecNotifyFaults == InitNotify /\ [][NextNotifyFaults]_vars

\* C22: a run that pushed to the active tokens of a user deletes the
\* fcmTokens documents of that user whose token the sender reported as
\* invalid-registration-token or registration-token-not-registered, and
\* leaves every document whose token succeeded or failed otherwise.
C22_OnlyInvalidTokensRemoved ==
  [][\A d \in delivery' \ delivery :
       \A p \in d.pushed :
         \A t \in fcmTokens :
           (t.uid = d.uid /\ t.active /\ t.token = p.token) =>
             IF p.result \in {"messaging/invalid-registration-token",
                              "messaging/registration-token-not-registered"}
             THEN t \notin fcmTokens'
             ELSE t \in fcmTokens']_vars

\* A push to two tokens, one reported as not registered and deleted, the
\* other failed with an internal error and kept.
C22_Witness ==
  \E d \in delivery :
    /\ \E p \in d.pushed :
         /\ p.result = "messaging/registration-token-not-registered"
         /\ \A t \in fcmTokens : ~(t.uid = d.uid /\ t.token = p.token)
    /\ \E p \in d.pushed :
         /\ p.result = "messaging/internal-error"
         /\ \E t \in fcmTokens : t.uid = d.uid /\ t.token = p.token

\* Notifications are disabled for the user or the type of the message d
\* reports on.
Disabled(d) == ~prefs[d.uid].enabled \/ d.type \in prefs[d.uid].muted

Queued(d) == \E m \in queue : m.id = d.messageId

VoiceEventCreated(speakerLabel, emotion) ==
  /\ "updateVoiceProfile" \in scheduled
  /\ Cardinality(profileRuns) < MaxVoiceEvents
  /\ profileRuns' = profileRuns \cup
       {[id |-> Cardinality(profileRuns) + 1, userId |-> 1,
         speakerLabel |-> speakerLabel, emotion |-> emotion,
         stage |-> "created", seen |-> {}]}
  /\ UNCHANGED <<besidesVoice, voiceProfiles>>

\* voiceProfiles where userId and speakerName match: the invocation keeps
\* docs[0], any of the matching documents, the ids being random.
ProfileQuery(run) ==
  /\ run \in profileRuns
  /\ run.stage = "created"
  /\ LET hits == {p \in voiceProfiles :
                    p.userId = run.userId /\ p.speakerName = run.speakerLabel}
     IN \E seen \in (IF hits = {} THEN {{}} ELSE {{p} : p \in hits}) :
          profileRuns' = (profileRuns \ {run})
                           \cup {[run EXCEPT !.stage = "read", !.seen = seen]}
  /\ UNCHANGED <<besidesVoice, voiceProfiles>>

\* [...toneEvolution, entry].slice(-10)
LastTen(tones) ==
  IF Len(tones) <= 10 THEN tones ELSE SubSeq(tones, Len(tones) - 9, Len(tones))

NextFamiliarity(score) == Min(100, score + 1)

\* set() of a new profile when the query was empty, update() of the
\* document the query returned otherwise: the fields are computed from the
\* data read.
ProfileWrite(run) ==
  /\ run \in profileRuns
  /\ run.stage = "read"
  /\ IF run.seen = {}
     THEN voiceProfiles' = voiceProfiles \cup
            {[id |-> run.id, userId |-> run.userId,
              speakerName |-> run.speakerLabel, familiarityScore |-> 1,
              emotionalTrend |-> run.emotion, conversationCount |-> 1,
              toneEvolution |-> <<run.emotion>>]}
     ELSE LET read == CHOOSE p \in run.seen : TRUE
          IN voiceProfiles' =
               {IF p.id = read.id
                THEN [p EXCEPT
                        !.familiarityScore = NextFamiliarity(read.familiarityScore),
                        !.emotionalTrend = run.emotion,
                        !.conversationCount = read.conversationCount + 1,
                        !.toneEvolution =
                          LastTen(Append(read.toneEvolution, run.emotion))]
                ELSE p : p \in voiceProfiles}
  /\ profileRuns' = (profileRuns \ {run}) \cup {[run EXCEPT !.stage = "done"]}
  /\ UNCHANGED besidesVoice

\* ------------------------------------- the voice profiles (SpecVoiceProfile)

\* The profile of a speaker known for long: 99 conversations, 9 tones.
KnownSpeaker ==
  [id |-> 0, userId |-> 1, speakerName |-> "bob", familiarityScore |-> 99,
   emotionalTrend |-> "calm", conversationCount |-> 99,
   toneEvolution |-> [i \in 1 .. 9 |-> "calm"]]

InitVoiceProfile ==
  /\ now = FirstDay * HoursPerDay
  /\ ran = {}
  /\ scheduled = {"updateVoiceProfile"}
  /\ users = {1}
  /\ EmptyBase
  /\ healthRun = NoHealthRun
  /\ NoNotify
  /\ voiceProfiles = {KnownSpeaker}
  /\ profileRuns = {}
  /\ NoInsight

VoiceEventArrives ==
  \E speakerLabel \in {"alice", "bob"}, emotion \in {"calm", "tense"} :
    VoiceEventCreated(speakerLabel, emotion)

ProfileQueried == \E run \in profileRuns : ProfileQuery(run)

ProfileWritten == \E run \in profileRuns : ProfileWrite(run)

NextVoiceProfile ==
  \/ VoiceEventArrives
  \/ ProfileQueried
  \/ ProfileWritten

SpecVoiceProfile == InitVoiceProfile /\ [][NextVoiceProfile]_vars

\* The invocations for the speaker, and whether all of them have returned.
RunsFor(speaker) == {r \in profileRuns : r.speakerLabel = speaker}
ProfilesOf(speaker) ==
  {p \in voiceProfiles : p.userId = 1 /\ p.speakerName = speaker}
Returned(speaker) == \A r \in RunsFor(speaker) : r.stage = "done"

\* C26 as stated: once the n invocations for a new speaker have returned
\* there is exactly one profile of the speaker and its conversationCount is
\* n; and always familiarityScore <= 100 and toneEvolution has at most 10
\* entries.
C26_OneProfileCountingEveryEvent ==
  /\ (RunsFor("alice") # {} /\ Returned("alice")) =>
       /\ Cardinality(ProfilesOf("alice")) = 1
       /\ \A p \in ProfilesOf("alice") :
            p.conversationCount = Cardinality(RunsFor("alice"))
  /\ \A p \in voiceProfiles :
       p.familiarityScore <= 100 /\ Len(p.toneEvolution) <= 10

\* --------------------------------------------------- onCognitiveStateChange

\* state.moodScore || 50: a mood score of 0 is falsy and counts as 50.
MoodOrDefault(moodScore) == IF moodScore = 0 THEN 50 ELSE moodScore

\* detectSignificantChange(previousStates, currentState)
DetectSignificantChange(previousStates, currentState) ==
  IF previousStates = <<>> THEN [isSignificant |-> FALSE]
  ELSE LET avgPreviousMood ==
             Frac(Sum([i \in DOMAIN previousStates |->
                         MoodOrDefault(previousStates[i].moodScore)]),
                  Len(previousStates))
           moodChange == FSub(Whole(MoodOrDefault(currentState.moodScore)),
                              avgPreviousMood)
       IN IF FLt(Whole(20), FAbs(moodChange))
          THEN [isSignificant |-> TRUE,
                type |-> IF FLt(Whole(0), moodChange) THEN "mood_improvement"
                         ELSE "mood_decline",
                urgency |-> IF FLt(Whole(30), FAbs(moodChange)) THEN "medium"
                            ELSE "low"]
          ELSE [isSignificant |-> FALSE]

\* cognitiveMirror where userId == u and date < before, in descending order
\* of date, limit 3.
PreviousStates(u, before) ==
  LET hits == {m \in cognitiveMirror : m.userId = u /\ m.date < before}
  IN Take(Reverse(SortByKey(hits, [m \in hits |-> OrderKey(m.date, m.id)])), 3)

\* The trigger on cognitiveMirror/{mirrorId} for the created document.
OnCognitiveStateChange(mirrorId) ==
  LET cognitiveData == CHOOSE m \in cognitiveMirror : m.id = mirrorId
      changeDetected ==
        DetectSignificantChange(
          PreviousStates(cognitiveData.userId, cognitiveData.date), cognitiveData)
      insightId == Cardinality(passiveInsights) + 1
  IN /\ "onCognitiveStateChange" \in scheduled
     /\ \E m \in cognitiveMirror : m.id = mirrorId
     /\ \A n \in noticed : n.mirrorId # mirrorId
     /\ IF changeDetected.isSignificant
        THEN /\ passiveInsights' = passiveInsights \cup
                  {[id |-> insightId, userId |-> cognitiveData.userId,
                    type |-> "mood_shift_awareness",
                    trigger |-> changeDetected.type,
                    urgency |-> changeDetected.urgency,
                    scheduledFor |-> now, createdAt |-> now,
                    consumed |-> FALSE]}
             /\ noticed' = noticed \cup {[mirrorId |-> mirrorId, wrote |-> {insightId}]}
        ELSE /\ passiveInsights' = passiveInsights
             /\ noticed' = noticed \cup {[mirrorId |-> mirrorId, wrote |-> {}]}
     /\ UNCHANGED besidesInsight

\* ----------------------------------------- the mood shifts (SpecMoodShift)

\* The mood of the most recent earlier records, of the record before them,
\* and of the record created.
RecentMoods == {0, 10, 40, 50, 80}
OlderMoods == {0, 100}
CreatedMoods == {0, 10, 19, 20, 29, 30, 31, 50, 60, 61, 70, 71, 80, 81, 100}

\* Up to MaxEarlier records of user 1 dated before FirstDay, the record of
\* FirstDay, and a record dated after it; the creation of every one of them
\* is delivered.
InitMoodShift ==
  /\ now = (FirstDay + 1) * HoursPerDay + MirrorHour
  /\ ran = {}
  /\ scheduled = {"onCognitiveStateChange"}
  /\ users = {1}
  /\ \E k \in 0 .. MaxEarlier, recent \in RecentMoods, older \in OlderMoods,
        created \in CreatedMoods :
       LET days == (FirstDay - k) .. (FirstDay + 1)
           mood == [d \in days |-> IF d = FirstDay THEN created
                                   ELSE IF d = FirstDay + 1 THEN 100
                                   ELSE IF d >= FirstDay - 3 THEN recent
                                   ELSE older]
       IN /\ cognitiveMirror = History(days, mood, [d \in days |-> 40])
          /\ nextId = Cardinality(days) + 1
  /\ telemetryEvents = {} /\ voiceEvents = {} /\ cameraCaptures = {}
  /\ rhythmMap = {} /\ healthEcho = {} /\ deviceSignals = {}
  /\ shadowCognition = {} /\ obscuraPatterns = {}
  /\ emotionForecast = {} /\ recoveryEngine = {} /\ lifeEvents = {}
  /\ pending = {}
  /\ lastRun = NoRun
  /\ failures = 0
  /\ redelivered = 0
  /\ NoCalls
  /\ rhythmScores = {}
  /\ scored = {}
  /\ NoSide

MirrorCreated == \E m \in cognitiveMirror : OnCognitiveStateChange(m.id)

NextMoodShift == MirrorCreated

SpecMoodShift == InitMoodShift /\ [][NextMoodShift]_vars

\* The up to 3 most recent records of the user dated before the record m.
EarlierOf(m) ==
  LET hits == {e \in cognitiveMirror : e.userId = m.userId /\ e.date < m.date}
  IN {e \in hits : Cardinality({g \in hits : g.date > e.date}) < 3}

\* The mood score of m minus the mean mood score of EarlierOf(m).
MoodDifference(m) ==
  FSub(Whole(m.moodScore),
       Frac(Sum([e \in EarlierOf(m) |-> e.moodScore]),
            Cardinality(EarlierOf(m))))

\* C28 as stated: on the creation of a record with any mood score in
\* 0..100 an insight is written exactly when the user has an earlier-dated
\* record and the mood score differs by more than 20 from the mean of the
\* up to 3 most recent earlier-dated records; its trigger is
\* mood_improvement for a rise and mood_decline for a drop, its urgency
\* medium when the difference exceeds 30 and low otherwise.
C28_InsightIffMoodShift ==
  \A n \in noticed :
    LET m == CHOOSE r \in cognitiveMirror : r.id = n.mirrorId
        shift == EarlierOf(m) # {} /\ FLt(Whole(20), FAbs(MoodDifference(m)))
    IN /\ n.wrote # {} <=> shift
       /\ \A i \in passiveInsights :
            i.id \in n.wrote =>
              /\ i.type = "mood_shift_awareness"
              /\ i.trigger = IF FLt(Whole(0), MoodDifference(m))
                             THEN "mood_improvement" ELSE "mood_decline"
              /\ i.urgency = IF FLt(Whole(30), FAbs(MoodDifference(m)))
                             THEN "medium" ELSE "low"

\* ------------------------------------- onMoodChange, cleanupExpiredOverlays

\* What the handlers of the overlays leave alone, the id counter aside.
besidesOverlays == <<now, scheduled, users, raw, derived, pending, failures,
                     redelivered, callable, rhythmScores, scored, side>>

\* The trigger on cognitiveMirror/{mirrorId} for the created document: an
\* overlay that expires after 10 minutes when the mood moved by more than 15
\* or the stress by more than 20 since the latest earlier-dated record.
OnMoodChange(mirrorId) ==
  LET cognitiveData == CHOOSE m \in cognitiveMirror : m.id = mirrorId
      previousState ==
        Take(PreviousStates(cognitiveData.userId, cognitiveData.date), 1)
      moodChange == Abs(cognitiveData.moodScore - previousState[1].moodScore)
      stressChange == Abs(cognitiveData.stressIndex - previousState[1].stressIndex)
  IN /\ "onMoodChange" \in scheduled
     /\ \E m \in cognitiveMirror : m.id = mirrorId
     /\ mirrorId \notin restyled
     /\ restyled' = restyled \cup {mirrorId}
     /\ IF previousState # <<>> /\ (moodChange > 15 \/ stressChange > 20)
        THEN /\ activeOverlays' = activeOverlays \cup
                  {Overlay(nextId, cognitiveData.userId, "auto_aura_update",
                           TRUE, AutoAuraMinutes)}
             /\ nextId' = nextId + 1
        ELSE UNCHANGED <<activeOverlays, nextId>>
     /\ UNCHANGED <<besidesOverlays, ran, lastRun, minute>>

\* The scheduler invokes cleanupExpiredOverlays at every quarter of an hour.
CleanupDue ==
  /\ "cleanupExpiredOverlays" \in scheduled
  /\ minute = 0
  /\ "cleanupExpiredOverlays" \notin ran

\* activeOverlays where expiresAt < now.
Expired(o) == o.expires /\ o.left < 0

\* The documents of the query are deleted in one batch.
CleanupExpiredOverlays ==
  /\ CleanupDue
  /\ activeOverlays' = {o \in activeOverlays : ~Expired(o)}
  /\ ran' = ran \cup {"cleanupExpiredOverlays"}
  /\ lastRun' = [job |-> "cleanupExpiredOverlays", at |-> now, done |-> <<>>,
                 error |-> FALSE, failedUser |-> -1]
  /\ UNCHANGED <<besidesOverlays, nextId, minute, restyled>>

\* Five minutes pass; the time every overlay has left shrinks, and is not
\* followed further once the overlay is past its end.
FiveMinutesPass ==
  /\ ~CleanupDue
  /\ minute' = (minute + ClockStep) % CleanupMinutes
  /\ ran' = ran \ {"cleanupExpiredOverlays"}
  /\ activeOverlays' =
       {[o EXCEPT !.left = Max(@ - ClockStep, -ClockStep)] : o \in activeOverlays}
  /\ UNCHANGED <<besidesOverlays, nextId, lastRun, restyled>>

\* ------------------------------------------ the overlays (SpecOverlays)

\* Mood and stress of the second of two records of consecutive days, the
\* first having mood 50 and stress 40.
SecondDays ==
  {[mood |-> 50, stress |-> 40], [mood |-> 65, stress |-> 40],
   [mood |-> 66, stress |-> 40], [mood |-> 50, stress |-> 60],
   [mood |-> 50, stress |-> 61]}

InitOverlays ==
  /\ now = FirstDay * HoursPerDay
  /\ ran = {}
  /\ scheduled = {"onMoodChange", "cleanupExpiredOverlays"}
  /\ users = Users
  /\ \E second \in SecondDays :
       LET days == {FirstDay - 2, FirstDay - 1}
       IN StoreWith(History(days,
                            [d \in days |-> IF d = FirstDay - 1 THEN second.mood
                                            ELSE 50],
                            [d \in days |-> IF d = FirstDay - 1 THEN second.stress
                                            ELSE 40]),
                    {})

MoodChanged == \E m \in cognitiveMirror : OnMoodChange(m.id)

NextOverlays ==
  \/ ClientCall("generateAuraOverlay")
  \/ ClientCall("generateParticleOverlay")
  \/ MoodChanged
  \/ CleanupExpiredOverlays
  \/ FiveMinutesPass

\* The clock advances and the scheduler invokes the cleanup job whenever it
\* is due.
SpecOverlays ==
  /\ InitOverlays
  /\ [][NextOverlays]_vars
  /\ WF_vars(FiveMinutesPass)
  /\ WF_vars(CleanupExpiredOverlays)

\* The ids an overlay can have.
OverlayIds == 1 .. (MaxCallableDocs + 4)

Stored(id) == \E o \in activeOverlays : o.id = id

\* C30 as stated: every overlay whose lifetime has passed is eventually
\* deleted, and no step deletes an overlay whose expiresAt is not in the
\* past.
C30_OverlaysAreCleanedUp ==
  /\ \A id \in OverlayIds :
       (\E o \in activeOverlays : o.id = id /\ o.left < 0) ~> ~Stored(id)
  /\ [][\A o \in activeOverlays :
          (\A q \in activeOverlays' : q.id # o.id) => Expired(o)]_vars

\* -------------------------------------- the whole pipeline (SpecPipeline)

PipelineJobs == DOMAIN Schedule

PipelineTriggers ==
  {"detectBehavioralRecovery", "generateRhythmScore", "onCognitiveStateChange",
   "onMoodChange"}

\* The clock starts at 00:00 of the day on which the weekly job is due.
PipelineStart == FirstLifeEventDay * HoursPerDay

\* The records of the history stored at the start, one per day.
PipelineRecords == 14

\* Mood and stress of the seven days up to yesterday; the seven days before
\* them have mood 40 and stress 60. The record of yesterday is the one an
\* earlier invocation of the mirror job has written.
PipelineLaterDays == {[mood |-> 40, stress |-> 60], [mood |-> 71, stress |-> 39]}

\* What the capture pipeline stored at noon two days ago: a walk and
\* notifications, conversations, a tilted capture.
InitPipeline ==
  /\ now = PipelineStart
  /\ ran = {}
  /\ scheduled = PipelineJobs \cup PipelineTriggers
  /\ users = {1}
  /\ telemetryEvents =
       {[userId |-> 1, eventType |-> b.type,
         timestamp |-> PipelineStart - 2 * HoursPerDay + 12,
         eventDuration |-> b.duration, copies |-> b.copies] : b \in CycleTelemetry}
  /\ voiceEvents =
       {[uid |-> 1, createdAt |-> PipelineStart - 2 * HoursPerDay + 12,
         sentimentScore |-> 100, copies |-> 10]}
  /\ cameraCaptures =
       {[uid |-> 1, createdAt |-> PipelineStart - 2 * HoursPerDay + 12,
         cameraAngle |-> "tilted", objectTags |-> 2, copies |-> 1]}
  /\ \E later \in PipelineLaterDays :
       LET days == (FirstLifeEventDay - PipelineRecords) .. (FirstLifeEventDay - 1)
       IN /\ cognitiveMirror =
               History(days,
                       [d \in days |-> IF d >= FirstLifeEventDay - 7
                                       THEN later.mood ELSE EarlierDay.mood],
                       [d \in days |-> IF d >= FirstLifeEventDay - 7
                                       THEN later.stress ELSE EarlierDay.stress])
          /\ nextId = Cardinality(days) + 1
  /\ rhythmMap = {} /\ healthEcho = {} /\ deviceSignals = {}
  /\ shadowCognition = {} /\ obscuraPatterns = {}
  /\ emotionForecast = {} /\ recoveryEngine = {} /\ lifeEvents = {}
  /\ pending = {}
  /\ lastRun = NoRun
  /\ failures = 0
  /\ redelivered = 0
  /\ NoCalls
  /\ rhythmScores = {}
  /\ scored = {}
  /\ NoSide

\* The creation events of the records written since the start.
PipelineMirrorCreated ==
  \E m \in cognitiveMirror :
    m.id > PipelineRecords /\ OnCognitiveStateChange(m.id)

PipelineMoodChanged ==
  \E m \in cognitiveMirror : m.id > PipelineRecords /\ OnMoodChange(m.id)

\* The clients call once the last job of the day has run, until a call has
\* written a document.
PipelineCall(fn) ==
  /\ "detectLifeEvents" \in ran
  /\ callableDocs = {}
  /\ ClientCall(fn)

NextPipeline ==
  \/ Tick(PipelineStart + LifeEventHour)
  \/ AggregateDailyHealthMetrics(NoFail)
  \/ AggregateDeviceSignals(NoFail)
  \/ AggregateShadowCognition(NoFail)
  \/ AggregateObscuraPatterns(NoFail)
  \/ GenerateCognitiveMirror(NoFail)
  \/ GenerateEmotionForecast(NoFail)
  \/ DetectLifeEvents(NoFail)
  \/ RecoveryTrigger
  \/ RhythmMapCreated
  \/ PipelineMirrorCreated
  \/ PipelineMoodChanged
  \/ PipelineCall("getNarratorInsight")
  \/ PipelineCall("generateAuraOverlay")

SpecPipeline == InitPipeline /\ [][NextPipeline]_vars

IdsOf(collection) == {d.id : d \in collection}

\* The ids of the documents of the nine derived collections.
DerivedIds ==
  IdsOf(rhythmMap) \cup IdsOf(healthEcho) \cup IdsOf(deviceSignals)
    \cup IdsOf(shadowCognition) \cup IdsOf(obscuraPatterns)
    \cup IdsOf(cognitiveMirror) \cup IdsOf(emotionForecast)
    \cup IdsOf(recoveryEngine) \cup IdsOf(lifeEvents)

\* A step keeps every document of the collection as it is, and a document
\* it adds has an id that no derived document had.
OnlyCreates(before, after) ==
  /\ before \subseteq after
  /\ \A d \in after \ before : d.id \notin DerivedIds
  /\ Cardinality(IdsOf(after)) = Cardinality(after)

\* C21: no step of the pipeline updates or deletes a document of the nine
\* derived collections; every write to them creates a document under a
\* fresh id, and every other handler leaves their documents unchanged.
C21_DerivedDocumentsAreOnlyCreated ==
  [][/\ OnlyCreates(rhythmMap, rhythmMap')
     /\ OnlyCreates(healthEcho, healthEcho')
     /\ OnlyCreates(deviceSignals, deviceSignals')
     /\ OnlyCreates(shadowCognition, shadowCognition')
     /\ OnlyCreates(obscuraPatterns, obscuraPatterns')
     /\ OnlyCreates(cognitiveMirror, cognitiveMirror')
     /\ OnlyCreates(emotionForecast, emotionForecast')
     /\ OnlyCreates(recoveryEngine, recoveryEngine')
     /\ OnlyCreates(lifeEvents, lifeEvents')]_vars

NonEmpty(collection) == collection # {}

\* Every derived collection has been written, and the mirror job has left a
\* second cognitiveMirror document of one user and date beside the first.
C21_Witness ==
  /\ NonEmpty(rhythmMap) /\ NonEmpty(healthEcho) /\ NonEmpty(deviceSignals)
  /\ NonEmpty(shadowCognition) /\ NonEmpty(obscuraPatterns)
  /\ NonEmpty(emotionForecast) /\ NonEmpty(recoveryEngine) /\ NonEmpty(lifeEvents)
  /\ \E m, q \in cognitiveMirror :
       /\ m.id > PipelineRecords /\ q.id <= PipelineRecords
       /\ m.userId = q.userId /\ m.date = q.date

====
